---- MODULE Spec2Model ----
(***************************************************************************)
(* Optimization job pipeline of SG-Route-OPT: the job row of the "jobs"    *)
(* table, the step lock manager of services/jobs.py and the dispatcher     *)
(* process_task_payload of services/job_pipeline.py, run by several        *)
(* workers behind an at-least-once queue.                                  *)
(*                                                                         *)
(* Every worker owns one SQLAlchemy session (SessionLocal is built with    *)
(* expire_on_commit=False, utils/db.py:37): the Job object a session has   *)
(* loaded stays in its identity map, so get_job_or_404 returns the cached  *)
(* attributes and only db.refresh(job) (set_job_status, jobs.py:121) reads *)
(* the row again.  mem[w] is that cached object; job is the row itself.    *)
(* A commit writes the attributes whose value differs from the loaded one. *)
(***************************************************************************)
EXTENDS Integers, FiniteSets, Sequences, TLC

\* ---------------------------------------------------------------- bounds
MaxDeliveries == 4
MaxTime == 900

Workers == {"w1", "w2"}

\* ------------------------------------------------------ program constants
pipeline_step_lease_seconds == 900
MinLeaseSeconds == 5

PIPELINE_STEPS == <<"GEOCODE", "BUILD_MATRIX", "OPTIMIZE", "GENERATE_EXPORTS">>

Steps == {PIPELINE_STEPS[i] : i \in DOMAIN PIPELINE_STEPS}

NoStep == "NONE"

\* a step chain that goes from BUILD_MATRIX straight to GENERATE_EXPORTS
NEXT_STEP_skips_optimize ==
    [s \in Steps |->
        CASE s = "GEOCODE" -> "BUILD_MATRIX"
          [] s = "BUILD_MATRIX" -> "GENERATE_EXPORTS"
          [] s = "OPTIMIZE" -> "GENERATE_EXPORTS"
          [] OTHER -> NoStep]

NEXT_STEP ==
    [s \in Steps |->
        CASE s = "GEOCODE" -> "BUILD_MATRIX"
          [] s = "BUILD_MATRIX" -> "OPTIMIZE"
          [] s = "OPTIMIZE" -> "GENERATE_EXPORTS"
          [] OTHER -> NoStep]

STEP_PROGRESS_RANGE ==
    [s \in Steps |->
        CASE s = "GEOCODE" -> <<1, 25>>
          [] s = "BUILD_MATRIX" -> <<26, 65>>
          [] s = "OPTIMIZE" -> <<66, 90>>
          [] OTHER -> <<91, 100>>]

\* inner progress values a unit passes to its progress callback
\* (geocoding.py:72,124; optimization.py:355,942)
InnerProgress == {5, 100}

TerminalStatuses == {"FAILED", "SUCCEEDED", "CANCELED", "CANCELLED"}

\* None of an optional int / timestamp / lock token / error code
NoneInt == -1
NoTime == -1
NoToken == 0
NoError == "NONE"
NoDetail == "NONE"

ErrorKinds == {"AppError", "Exception"}

Max(a, b) == IF a >= b THEN a ELSE b
Min(a, b) == IF a <= b THEN a ELSE b

\* ------------------------------------------------------------ job store
PendingEntry ==
    [status |-> "PENDING", lock_token |-> NoToken, updated_at |-> NoTime,
     lease_expires_at |-> NoTime, stale_reclaimed |-> 0,
     retry_drill_injected |-> FALSE]

\* _init_steps_state that forgets the last declared step
init_steps_state_without_exports ==
    [s \in Steps |-> IF s = "GENERATE_EXPORTS"
                     THEN [PendingEntry EXCEPT !.status = "SUCCEEDED"]
                     ELSE PendingEntry]

init_steps_state == [s \in Steps |-> PendingEntry]

\* the row create_optimize_pipeline_job leaves behind
NewJob ==
    [status |-> "QUEUED", progress_pct |-> 0, current_step |-> "GEOCODE",
     result_ref |-> [s \in Steps |-> NoToken], steps |-> init_steps_state,
     error_code |-> NoError, error_detail |-> NoDetail]

set_job_status(row, status, progress_pct, current_step, error_code, error_detail, result_ref) ==
    LET r1 == [row EXCEPT !.status = status]
        r2 == IF progress_pct # NoneInt
              THEN [r1 EXCEPT !.progress_pct = Max(0, Min(100, progress_pct))]
              ELSE r1
        r3 == IF current_step # NoStep THEN [r2 EXCEPT !.current_step = current_step] ELSE r2
        r4 == IF error_code # NoError THEN [r3 EXCEPT !.error_code = error_code] ELSE r3
        r5 == IF error_detail # NoDetail THEN [r4 EXCEPT !.error_detail = error_detail] ELSE r4
        r6 == IF result_ref # <<>> THEN [r5 EXCEPT !.result_ref = result_ref[1]] ELSE r5
    IN  IF status = "SUCCEEDED"
        THEN [r6 EXCEPT !.error_code = NoError, !.error_detail = NoDetail]
        ELSE r6

effective_lease(lease_seconds) ==
    Max(MinLeaseSeconds,
        IF lease_seconds # 0 THEN lease_seconds ELSE pipeline_step_lease_seconds)

step_lease_is_expired(entry, t) ==
    IF entry.lease_expires_at # NoTime
    THEN entry.lease_expires_at <= t
    ELSE IF entry.updated_at = NoTime
         THEN FALSE
         ELSE entry.updated_at + Max(MinLeaseSeconds, pipeline_step_lease_seconds) <= t

\* lock_step without the refusal of a SUCCEEDED step (jobs.py:211-212)
lock_step_relocks_succeeded(row, step, lock_token, lease_seconds, t) ==
    LET entry == row.steps[step]
        reclaimed == IF entry.status = "RUNNING"
                     THEN [entry EXCEPT !.stale_reclaimed = @ + 1]
                     ELSE entry
        locked == [reclaimed EXCEPT !.status = "RUNNING",
                                    !.lock_token = lock_token,
                                    !.updated_at = t,
                                    !.lease_expires_at = t + effective_lease(lease_seconds)]
    IN  IF row.status \in TerminalStatuses THEN [ok |-> FALSE, row |-> row]
        ELSE IF entry.status = "RUNNING" /\ ~step_lease_is_expired(entry, t)
             THEN [ok |-> FALSE, row |-> row]
        ELSE [ok |-> TRUE,
              row |-> [row EXCEPT !.steps[step] = locked, !.current_step = step]]

\* lock_step on the session's Job object: the returned row is what the
\* session commits when ok
lock_step(row, step, lock_token, lease_seconds, t) ==
    LET entry == row.steps[step]
        reclaimed == IF entry.status = "RUNNING"
                     THEN [entry EXCEPT !.stale_reclaimed = @ + 1]
                     ELSE entry
        locked == [reclaimed EXCEPT !.status = "RUNNING",
                                    !.lock_token = lock_token,
                                    !.updated_at = t,
                                    !.lease_expires_at = t + effective_lease(lease_seconds)]
    IN  IF row.status \in TerminalStatuses THEN [ok |-> FALSE, row |-> row]
        ELSE IF entry.status = "SUCCEEDED" THEN [ok |-> FALSE, row |-> row]
        ELSE IF entry.status = "RUNNING" /\ ~step_lease_is_expired(entry, t)
             THEN [ok |-> FALSE, row |-> row]
        ELSE [ok |-> TRUE,
              row |-> [row EXCEPT !.steps[step] = locked, !.current_step = step]]

\* touch_step_lease without the comparison of the token (jobs.py:248-249)
touch_step_lease_any_token(row, step, lock_token, lease_seconds, t) ==
    LET entry == row.steps[step]
    IN  IF entry.status # "RUNNING" THEN [ok |-> FALSE, row |-> row]
        ELSE [ok |-> TRUE,
              row |-> [row EXCEPT !.steps[step].updated_at = t,
                                  !.steps[step].lease_expires_at =
                                        t + effective_lease(lease_seconds)]]

touch_step_lease(row, step, lock_token, lease_seconds, t) ==
    LET entry == row.steps[step]
    IN  IF entry.status # "RUNNING" THEN [ok |-> FALSE, row |-> row]
        ELSE IF entry.lock_token # lock_token THEN [ok |-> FALSE, row |-> row]
        ELSE [ok |-> TRUE,
              row |-> [row EXCEPT !.steps[step].updated_at = t,
                                  !.steps[step].lease_expires_at =
                                        t + effective_lease(lease_seconds)]]

has_step_lock(row, step, lock_token) ==
    /\ row.steps[step].status = "RUNNING"
    /\ row.steps[step].lock_token = lock_token

\* complete_step that leaves the lock_token in the entry (jobs.py:286)
complete_step_keeps_token(row, step, lock_token, progress_pct, t) ==
    LET entry == row.steps[step]
        done == [entry EXCEPT !.status = "SUCCEEDED",
                              !.updated_at = t, !.lease_expires_at = NoTime]
    IN  IF entry.lock_token # lock_token /\ entry.status = "RUNNING"
        THEN [ok |-> FALSE, row |-> row]
        ELSE [ok |-> TRUE,
              row |-> set_job_status([row EXCEPT !.steps[step] = done],
                                     "RUNNING", progress_pct, step, NoError, NoDetail, <<>>)]

complete_step(row, step, lock_token, progress_pct, t) ==
    LET entry == row.steps[step]
        done == [entry EXCEPT !.status = "SUCCEEDED", !.lock_token = NoToken,
                              !.updated_at = t, !.lease_expires_at = NoTime]
    IN  IF entry.lock_token # lock_token /\ entry.status = "RUNNING"
        THEN [ok |-> FALSE, row |-> row]
        ELSE [ok |-> TRUE,
              row |-> set_job_status([row EXCEPT !.steps[step] = done],
                                     "RUNNING", progress_pct, step, NoError, NoDetail, <<>>)]

fail_step(row, step, lock_token, error_code, error_detail, t) ==
    LET entry == row.steps[step]
        failed == [entry EXCEPT !.status = "FAILED", !.lock_token = NoToken,
                                !.updated_at = t, !.lease_expires_at = NoTime]
    IN  IF entry.lock_token # NoToken /\ entry.lock_token # lock_token
           /\ entry.status = "RUNNING"
        THEN [ok |-> FALSE, row |-> row]
        ELSE [ok |-> TRUE,
              row |-> set_job_status([row EXCEPT !.steps[step] = failed],
                                     "FAILED", Max(row.progress_pct, 1), step,
                                     error_code, error_detail, <<>>)]

\* _merge_result: current.update(partial); the partial of a step is tagged
\* with the token of the worker that produced it
merge_result(row, step, lock_token) ==
    set_job_status(row, row.status, row.progress_pct, row.current_step, NoError, NoDetail,
                   <<[row.result_ref EXCEPT ![step] = lock_token]>>)

\* mapped progress of _progress_emitter._emit
mapped_progress(step, inner_progress) ==
    LET start == STEP_PROGRESS_RANGE[step][1]
        end == STEP_PROGRESS_RANGE[step][2]
    IN  start + ((Max(0, Min(100, inner_progress)) * (end - start)) \div 100)

error_code_of(kind) ==
    IF kind = "AppError" THEN "APP_ERROR_CODE" ELSE "STEP_EXECUTION_FAILED"

\* exc.details or exc.message of an AppError, str(exc) of any other exception
error_detail_of(kind) ==
    IF kind = "AppError" THEN "APP_ERROR_DETAILS" ELSE "EXCEPTION_TEXT"

\* _maybe_inject_retry_drill: configured_step is the step of
\* pipeline_retry_drill_step when the delay is positive and the deployment is
\* in cloud mode, NoStep otherwise; abort is the InjectedRetryDrillError
maybe_inject_retry_drill(row, step, configured_step) ==
    IF configured_step = NoStep \/ configured_step # step
    THEN [abort |-> FALSE, row |-> row]
    ELSE IF row.steps[step].retry_drill_injected
         THEN [abort |-> FALSE, row |-> row]
         ELSE [abort |-> TRUE,
               row |-> [row EXCEPT !.steps[step].retry_drill_injected = TRUE]]

\* an exception handler that treats the drill abort like any other exception
on_retry_drill_abort_fails_step(row, step, lock_token, t) ==
    fail_step(row, step, lock_token, "STEP_EXECUTION_FAILED", "EXCEPTION_TEXT", t).row

\* except InjectedRetryDrillError: raise -- the row is left as the drill wrote it
on_retry_drill_abort(row, step, lock_token, t) == row

\* ------------------------------------------------------------------ state
VARIABLES
    job,        \* the row of the jobs table
    now,        \* datetime.utcnow(), in seconds
    enq,        \* enqueue_step_task calls per step (messages the queue holds)
    delivered,  \* deliveries so far; also the source of fresh uuid4 tokens
    pc,         \* position of each worker inside process_task_payload
    wstep,      \* step of the message the worker is processing
    tok,        \* lock_token of that delivery
    mem,        \* the Job object cached in the worker's session
    saw,        \* status of the step in the row lock_step decided on
    inner,      \* last inner progress the worker's unit reported
    outcome,    \* how the worker's last delivery ended
    drill,      \* the step the retry drill is configured for, or NoStep
    fn,         \* the last call of a function outside the step state machine
    routes      \* the routing service: its caches, the od_cache table, its calls

vars == <<job, now, enq, delivered, pc, wstep, tok, mem, saw, inner, outcome, drill, fn, routes>>

\* the variables of the step state machine
pipeline == <<job, now, enq, delivered, pc, wstep, tok, mem, saw, inner, outcome, drill>>

\* no function outside the step state machine has been called
NoCall == [op |-> "none"]

\* ---- the routing service (services/routing.py) ----

MaxRequests == 3

\* latitudes in units of 1e-6 degree; the first two differ in the sixth
\* decimal only
Lats == {1300010, 1300014, 1310010}
Lons == {103800010}
Points == Lats \X Lons
DepartBuckets == {"08:00", "08:05"}
DaysOfWeek == {2}

\* RoutingService._round: round(v, 5)
round5(v) == ((v + 5) \div 10) * 10

RouteRequests ==
    [origin : Points, dest : Points, depart_bucket : DepartBuckets,
     day_of_week : DaysOfWeek]

\* RoutingService._key, and the columns the od_cache query compares
route_key(req) ==
    <<round5(req.origin[1]), round5(req.origin[2]), round5(req.dest[1]),
      round5(req.dest[2]), req.depart_bucket, req.day_of_week>>

RouteKeys == {route_key(req) : req \in RouteRequests}

\* what OneMapClient.route gives back: a route, marked as a heuristic
\* fallback or not, or an exception
ProviderAnswers ==
    {[kind |-> "route", is_fallback |-> FALSE],
     [kind |-> "route", is_fallback |-> TRUE],
     [kind |-> "raised", is_fallback |-> FALSE]}

NoRequest == [origin |-> <<0, 0>>, dest |-> <<0, 0>>, depart_bucket |-> "", day_of_week |-> 0]
NoResult == [source |-> "none", od_cache_id |-> 0]

\* the routing service before its first request: empty key-value cache,
\* empty od_cache table, no provider call made
NoRoutes ==
    [kv |-> [k \in RouteKeys |-> 0],
     od |-> <<>>,
     calls |-> 0,
     requests |-> 0,
     who |-> "none",
     rpc |-> [w \in Workers |-> "idle"],
     req |-> [w \in Workers |-> NoRequest],
     last |-> [w \in Workers |-> NoResult],
     resolved |-> {}]

\* UPDATE of the attributes the session modified since it loaded them
Commit(base, row) ==
    [c \in DOMAIN job |-> IF row[c] # base[c] THEN row[c] ELSE job[c]]

Init ==
    /\ job = NewJob
    /\ now = 0
    /\ enq = [s \in Steps |-> IF s = "GEOCODE" THEN 1 ELSE 0]
    /\ delivered = 0
    /\ pc = [w \in Workers |-> "idle"]
    /\ wstep = [w \in Workers |-> "GEOCODE"]
    /\ tok = [w \in Workers |-> NoToken]
    /\ mem = [w \in Workers |-> NewJob]
    /\ saw = [w \in Workers |-> "NONE"]
    /\ inner = [w \in Workers |-> 0]
    /\ outcome = [w \in Workers |-> "none"]
    /\ drill = NoStep
    /\ fn = NoCall
    /\ routes = NoRoutes

\* the row after GEOCODE, BUILD_MATRIX and OPTIMIZE ran once each, in order
\* and undisturbed, under tokens of their own: complete_step of OPTIMIZE has
\* left progress_pct at 90 and the GENERATE_EXPORTS message is enqueued
LateJob ==
    [status |-> "RUNNING", progress_pct |-> STEP_PROGRESS_RANGE["OPTIMIZE"][2],
     current_step |-> "OPTIMIZE",
     result_ref |-> [s \in Steps |->
                        CASE s = "GEOCODE" -> MaxDeliveries + 1
                          [] s = "BUILD_MATRIX" -> MaxDeliveries + 2
                          [] s = "OPTIMIZE" -> MaxDeliveries + 3
                          [] OTHER -> NoToken],
     steps |-> [s \in Steps |->
                   IF s = "GENERATE_EXPORTS"
                   THEN PendingEntry
                   ELSE [status |-> "SUCCEEDED", lock_token |-> NoToken, updated_at |-> 0,
                         lease_expires_at |-> NoTime, stale_reclaimed |-> 0,
                         retry_drill_injected |-> FALSE]],
     error_code |-> NoError, error_detail |-> NoDetail]

\* the pipeline with its last step still to run; every message enqueued so
\* far may be delivered again
InitLate ==
    /\ job = LateJob
    /\ now = 0
    /\ enq = [s \in Steps |-> 1]
    /\ delivered = 0
    /\ pc = [w \in Workers |-> "idle"]
    /\ wstep = [w \in Workers |-> "GEOCODE"]
    /\ tok = [w \in Workers |-> NoToken]
    /\ mem = [w \in Workers |-> NewJob]
    /\ saw = [w \in Workers |-> "NONE"]
    /\ inner = [w \in Workers |-> 0]
    /\ outcome = [w \in Workers |-> "none"]
    /\ drill = NoStep
    /\ fn = NoCall
    /\ routes = NoRoutes

\* the clock advances by one lease period
Tick ==
    /\ now + pipeline_step_lease_seconds <= MaxTime
    /\ now' = now + pipeline_step_lease_seconds
    /\ UNCHANGED <<job, enq, delivered, pc, wstep, tok, mem, saw, inner, outcome, drill, fn, routes>>

\* db.close() in the finally clause: the session and its Job object are gone
Close(w, how) ==
    /\ pc' = [pc EXCEPT ![w] = "idle"]
    /\ wstep' = [wstep EXCEPT ![w] = "GEOCODE"]
    /\ tok' = [tok EXCEPT ![w] = NoToken]
    /\ mem' = [mem EXCEPT ![w] = NewJob]
    /\ saw' = [saw EXCEPT ![w] = "NONE"]
    /\ inner' = [inner EXCEPT ![w] = 0]
    /\ outcome' = [outcome EXCEPT ![w] = how]

\* process_task_payload, lines 478-493: a message is delivered (any message
\* the queue was ever given may be delivered again), the job is loaded
Deliver(w, s) ==
    /\ pc[w] = "idle"
    /\ enq[s] > 0
    /\ delivered < MaxDeliveries
    /\ delivered' = delivered + 1
    /\ IF job.status \in TerminalStatuses
       THEN Close(w, "dropped_terminal")
       ELSE /\ pc' = [pc EXCEPT ![w] = "lock"]
            /\ wstep' = [wstep EXCEPT ![w] = s]
            /\ tok' = [tok EXCEPT ![w] = delivered + 1]
            /\ mem' = [mem EXCEPT ![w] = job]
            /\ outcome' = [outcome EXCEPT ![w] = "none"]
            /\ UNCHANGED <<saw, inner>>
    /\ UNCHANGED <<job, now, enq, drill, fn, routes>>

\* the redelivery branch without the look at the successor's state (line 503):
\* the successor is enqueued whenever the step itself is SUCCEEDED
LockStep_requeues_always(w) ==
    /\ pc[w] = "lock"
    /\ LET s == wstep[w]
           r == lock_step(mem[w], s, tok[w], 0, now)
           step_state == mem[w].steps[s].status
           next_step == NEXT_STEP[s]
           running == Commit(mem[w],
                             set_job_status(r.row, "RUNNING",
                                            Max(mem[w].progress_pct,
                                                STEP_PROGRESS_RANGE[s][1]),
                                            s, NoError, NoDetail, <<>>))
           d == maybe_inject_retry_drill(running, s, drill)
       IN  IF r.ok /\ d.abort
           THEN /\ job' = on_retry_drill_abort(d.row, s, tok[w], now)
                /\ Close(w, "drill_abort")
                /\ UNCHANGED enq
           ELSE IF r.ok
           THEN /\ job' = running
                /\ mem' = [mem EXCEPT ![w] = job']
                /\ pc' = [pc EXCEPT ![w] = "unit"]
                /\ saw' = [saw EXCEPT ![w] = step_state]
                /\ UNCHANGED <<enq, wstep, tok, inner, outcome>>
           ELSE IF step_state = "SUCCEEDED" /\ next_step # NoStep
                THEN /\ enq' = [enq EXCEPT ![next_step] = @ + 1]
                     /\ Close(w, "requeued_next")
                     /\ UNCHANGED job
                ELSE IF step_state = "SUCCEEDED" /\ next_step = NoStep
                        /\ mem[w].status # "SUCCEEDED"
                THEN /\ job' = Commit(mem[w],
                                      set_job_status(mem[w], "SUCCEEDED", 100, s, NoError, NoDetail,
                                                     <<mem[w].result_ref>>))
                     /\ Close(w, "marked_succeeded")
                     /\ UNCHANGED enq
                ELSE /\ Close(w, "lock_refused")
                     /\ UNCHANGED <<job, enq>>
    /\ UNCHANGED <<now, delivered, drill, fn, routes>>

\* process_task_payload, lines 495-524: lock_step; when it refuses, the
\* redelivery branch; when it grants, set_job_status marks the job RUNNING at
\* the step's progress floor, commits and refreshes the Job object, and the
\* retry drill, when configured for the step and not yet injected, marks the
\* entry and aborts the delivery
LockStep(w) ==
    /\ pc[w] = "lock"
    /\ LET s == wstep[w]
           r == lock_step(mem[w], s, tok[w], 0, now)
           step_state == mem[w].steps[s].status
           next_step == NEXT_STEP[s]
           running == Commit(mem[w],
                             set_job_status(r.row, "RUNNING",
                                            Max(mem[w].progress_pct,
                                                STEP_PROGRESS_RANGE[s][1]),
                                            s, NoError, NoDetail, <<>>))
           d == maybe_inject_retry_drill(running, s, drill)
       IN  IF r.ok /\ d.abort
           THEN /\ job' = on_retry_drill_abort(d.row, s, tok[w], now)
                /\ Close(w, "drill_abort")
                /\ UNCHANGED enq
           ELSE IF r.ok
           THEN /\ job' = running
                /\ mem' = [mem EXCEPT ![w] = job']
                /\ pc' = [pc EXCEPT ![w] = "unit"]
                /\ saw' = [saw EXCEPT ![w] = step_state]
                /\ UNCHANGED <<enq, wstep, tok, inner, outcome>>
           ELSE IF step_state = "SUCCEEDED" /\ next_step # NoStep
                   /\ mem[w].steps[next_step].status = "PENDING"
                THEN /\ enq' = [enq EXCEPT ![next_step] = @ + 1]
                     /\ Close(w, "requeued_next")
                     /\ UNCHANGED job
                ELSE IF step_state = "SUCCEEDED" /\ next_step = NoStep
                        /\ mem[w].status # "SUCCEEDED"
                THEN /\ job' = Commit(mem[w],
                                      set_job_status(mem[w], "SUCCEEDED", 100, s, NoError, NoDetail,
                                                     <<mem[w].result_ref>>))
                     /\ Close(w, "marked_succeeded")
                     /\ UNCHANGED enq
                ELSE /\ Close(w, "lock_refused")
                     /\ UNCHANGED <<job, enq>>
    /\ UNCHANGED <<now, delivered, drill, fn, routes>>

\* _progress_emitter._emit, called by the running unit in a session of its
\* own: touch_step_lease, then set_job_status
EmitProgress(w, p) ==
    /\ pc[w] = "unit"
    /\ p >= inner[w]
    /\ inner' = [inner EXCEPT ![w] = p]
    /\ LET s == wstep[w]
           t == touch_step_lease(job, s, tok[w], 0, now)
       IN  IF t.ok
           THEN job' = set_job_status(t.row, "RUNNING", mapped_progress(s, p), s,
                                      NoError, NoDetail, <<>>)
           ELSE job' = job
    /\ UNCHANGED <<now, enq, delivered, pc, wstep, tok, mem, saw, outcome, drill, fn, routes>>

\* the unit function raises; lines 590-607 turn it into fail_step
UnitRaise(w, kind) ==
    /\ pc[w] = "unit"
    /\ LET r == fail_step(mem[w], wstep[w], tok[w], error_code_of(kind),
                        error_detail_of(kind), now)
       IN  job' = IF r.ok THEN Commit(mem[w], r.row) ELSE job
    /\ Close(w, "failed")
    /\ UNCHANGED <<now, enq, delivered, drill, fn, routes>>

\* the row after _merge_result of worker w (set_job_status commits the
\* result_ref and refreshes the Job object)
Merged(w) == Commit(mem[w], merge_result(mem[w], wstep[w], tok[w]))

\* the unit function returns; lines 540-556: has_step_lock on the session's
\* Job object, _merge_result, complete_step on the refreshed object, then
\* the next step is enqueued
UnitReturns(w) ==
    /\ pc[w] = "unit"
    /\ IF has_step_lock(mem[w], wstep[w], tok[w])
       THEN LET s == wstep[w]
                r == complete_step(Merged(w), s, tok[w], STEP_PROGRESS_RANGE[s][2], now)
            IN  /\ job' = r.row
                /\ IF NEXT_STEP[s] # NoStep
                   THEN /\ enq' = [enq EXCEPT ![NEXT_STEP[s]] = @ + 1]
                        /\ Close(w, "enqueued_next")
                   ELSE /\ pc' = [pc EXCEPT ![w] = "finalize"]
                        /\ mem' = [mem EXCEPT ![w] = job']
                        /\ UNCHANGED <<enq, wstep, tok, inner, saw, outcome>>
       ELSE /\ Close(w, "lost_lock")
            /\ UNCHANGED <<job, enq>>
    /\ UNCHANGED <<now, delivered, drill, routes>>

\* a unit whose result the model does not look into returns
FinishStep(w) ==
    /\ UnitReturns(w)
    /\ UNCHANGED fn

\* lines 558-567: after the last step the job is marked SUCCEEDED
FinalizeJob(w) ==
    /\ pc[w] = "finalize"
    /\ job' = Commit(mem[w],
                     set_job_status(mem[w], "SUCCEEDED", 100, wstep[w], NoError, NoDetail,
                                    <<mem[w].result_ref>>))
    /\ Close(w, "job_succeeded")
    /\ UNCHANGED <<now, enq, delivered, drill, fn, routes>>

\* the worker process stops (killed, or the InjectedRetryDrillError of lines
\* 155 and 588-589 leaves process_task_payload): whatever it had locked stays
\* locked, nothing more is written
Crash(w) ==
    /\ pc[w] \in {"unit", "finalize"}
    /\ Close(w, "crashed")
    /\ UNCHANGED <<job, now, enq, delivered, drill, fn, routes>>

Next ==
    \/ Tick
    \/ \E w \in Workers, s \in Steps : Deliver(w, s)
    \/ \E w \in Workers : LockStep(w)
    \/ \E w \in Workers, p \in InnerProgress : EmitProgress(w, p)
    \/ \E w \in Workers, kind \in ErrorKinds : UnitRaise(w, kind)
    \/ \E w \in Workers : FinishStep(w)
    \/ \E w \in Workers : FinalizeJob(w)
    \/ \E w \in Workers : Crash(w)

Spec == Init /\ [][Next]_vars

\* A queue that delivers each message until one delivery of it returns
\* without error: enq counts the messages still to be delivered.  A delivery
\* takes its message off the queue; every return of process_task_payload
\* (lock refused, step done, fail_step after an error) acknowledges it.
DeliverOnce(w, s) ==
    /\ pc[w] = "idle"
    /\ enq[s] > 0
    /\ delivered < MaxDeliveries
    /\ delivered' = delivered + 1
    /\ enq' = [enq EXCEPT ![s] = @ - 1]
    /\ IF job.status \in TerminalStatuses
       THEN Close(w, "dropped_terminal")
       ELSE /\ pc' = [pc EXCEPT ![w] = "lock"]
            /\ wstep' = [wstep EXCEPT ![w] = s]
            /\ tok' = [tok EXCEPT ![w] = delivered + 1]
            /\ mem' = [mem EXCEPT ![w] = job]
            /\ outcome' = [outcome EXCEPT ![w] = "none"]
            /\ UNCHANGED <<saw, inner>>
    /\ UNCHANGED <<job, now, drill, fn, routes>>

\* the worker process stops: its delivery ends in an error, so the queue
\* will deliver the message again
CrashRedeliver(w) ==
    /\ pc[w] \in {"unit", "finalize"}
    /\ enq' = [enq EXCEPT ![wstep[w]] = @ + 1]
    /\ Close(w, "crashed")
    /\ UNCHANGED <<job, now, delivered, drill, fn, routes>>

NextAck ==
    \/ Tick
    \/ \E w \in Workers, s \in Steps : DeliverOnce(w, s)
    \/ \E w \in Workers : LockStep(w)
    \/ \E w \in Workers, p \in InnerProgress : EmitProgress(w, p)
    \/ \E w \in Workers, kind \in ErrorKinds : UnitRaise(w, kind)
    \/ \E w \in Workers : FinishStep(w)
    \/ \E w \in Workers : FinalizeJob(w)
    \/ \E w \in Workers : CrashRedeliver(w)

SpecAck == Init /\ [][NextAck]_vars

\* the job is marked CANCELLED (the operation that does it is not part of the
\* pipeline code: the status is only ever read there, as a terminal one)
Cancel ==
    /\ job.status \notin TerminalStatuses
    /\ job' = [job EXCEPT !.status = "CANCELLED"]
    /\ UNCHANGED <<now, enq, delivered, pc, wstep, tok, mem, saw, inner, outcome, drill, fn, routes>>

NextCancel == Next \/ Cancel

SpecCancel == Init /\ [][NextCancel]_vars

SpecLate == InitLate /\ [][Next]_vars

\* The undisturbed run: every message is delivered once, no unit raises and
\* no worker stops, so no lock is lost; a worker that can take a step
\* eventually takes one.
NextHappy ==
    \/ Tick
    \/ \E w \in Workers, s \in Steps : DeliverOnce(w, s)
    \/ \E w \in Workers : LockStep(w)
    \/ \E w \in Workers, p \in InnerProgress : EmitProgress(w, p)
    \/ \E w \in Workers : FinishStep(w)
    \/ \E w \in Workers : FinalizeJob(w)

SpecHappy == Init /\ [][NextHappy]_vars /\ WF_vars(NextHappy)


\* a deployment whose retry drill is configured for one of the last two steps,
\* with the pipeline's last step still to run
DrillSteps == {"OPTIMIZE", "GENERATE_EXPORTS"}

InitDrill ==
    /\ job = LateJob
    /\ now = 0
    /\ enq = [s \in Steps |-> 1]
    /\ delivered = 0
    /\ pc = [w \in Workers |-> "idle"]
    /\ wstep = [w \in Workers |-> "GEOCODE"]
    /\ tok = [w \in Workers |-> NoToken]
    /\ mem = [w \in Workers |-> NewJob]
    /\ saw = [w \in Workers |-> "NONE"]
    /\ inner = [w \in Workers |-> 0]
    /\ outcome = [w \in Workers |-> "none"]
    /\ drill \in DrillSteps
    /\ fn = NoCall
    /\ routes = NoRoutes

SpecDrill == InitDrill /\ [][Next]_vars

\* ------------------------------------------------- routing of a queue message
\* the "kind" a payload can carry; NoKind is a payload without the key
NoKind == "NONE"
RawKinds == {"job", "Job", " JOB ", "pipeline_step", "export", NoKind}

\* str(payload.get("kind") or "pipeline_step").strip().lower()
normalize_kind(raw) ==
    CASE raw = NoKind -> "pipeline_step"
      [] raw \in {"job", "Job", " JOB "} -> "job"
      [] OTHER -> raw

JobIds == {"", "job_1", "job_2"}
MessageSteps == Steps \cup {"", "BOGUS"}
Messages == [kind : RawKinds, job_id : JobIds, step : MessageSteps]

\* how a message reaches the application: an RQ worker or the inline
\* dispatch call dispatch_enqueued_task, Cloud Tasks posts to /tasks/handle
DeliveryPaths == {"rq_worker", "inline", "http_handler"}

\* run_queued_job: nothing without a job id, else run_job
run_queued_job(msg) ==
    [handler |-> "run_queued_job",
     effect |-> IF msg.job_id = "" THEN "dropped" ELSE "ran_job"]

\* the head of process_task_payload, lines 479-484
process_task_payload(msg) ==
    [handler |-> "process_task_payload",
     effect |-> IF msg.job_id = "" \/ msg.step = "" THEN "dropped"
                ELSE IF msg.step \notin Steps THEN "dropped"
                ELSE "ran_step"]

dispatch_enqueued_task(msg) ==
    IF normalize_kind(msg.kind) = "job"
    THEN run_queued_job(msg)
    ELSE process_task_payload(msg)

handle_task(msg) == process_task_payload(msg)

DeliverMessage(path, msg) ==
    /\ fn' = [op |-> "deliver", path |-> path, msg |-> msg,
              out |-> IF path = "http_handler"
                      THEN handle_task(msg)
                      ELSE dispatch_enqueued_task(msg)]
    /\ UNCHANGED <<pipeline, routes>>

NextDispatch == \E path \in DeliveryPaths, msg \in Messages : DeliverMessage(path, msg)

SpecDispatch == Init /\ [][NextDispatch]_vars


\* --------------------------------------- the matrix artifact of OPTIMIZE
\* a path string as result_ref stores it: absent/empty, blank, or a real path
PathStrings == {"", " ", "p"}

\* str(value or "").strip()
strip(path) == IF path = " " THEN "" ELSE path

\* result_ref.get("matrix_artifact_ref"): no dict, or a dict with the two paths
NoRef == [present |-> FALSE]
ArtifactRefs ==
    {NoRef} \cup [present : {TRUE}, object_path : PathStrings, file_path : PathStrings]

\* what the object store holds under the object path
ObjectStates == {"json", "not_found", "unavailable", "not_json"}
\* what the file system holds under a file path
FileStates == {"json", "absent", "not_json"}

\* download_bytes followed by json.loads, inside try/except Exception
\* (lines 351-357): the artifact, or an entry in errors
read_object(state) ==
    IF state = "json" THEN [kind |-> "artifact"] ELSE [kind |-> "error_noted"]

\* load_matrix_artifact (optimization.py:299-309) inside try/except AppError:
\* an absent file is an AppError and is noted, a file that is not JSON makes
\* json.loads raise, which is not an AppError and leaves the function
read_file(state) ==
    CASE state = "json" -> [kind |-> "artifact"]
      [] state = "absent" -> [kind |-> "error_noted"]
      [] OTHER -> [kind |-> "raised", code |-> "JSONDecodeError"]

\* _load_matrix_artifact_for_optimize: tried lists the references in the
\* order they were tried
load_matrix_artifact_for_optimize(ref, artifact_path, object_state, file_state, path_state) ==
    LET try_object == ref.present /\ strip(ref.object_path) # ""
        r1 == IF try_object THEN read_object(object_state) ELSE [kind |-> "skipped"]
        try_file == ref.present /\ strip(ref.file_path) # "" /\ r1.kind # "artifact"
        r2 == IF try_file THEN read_file(file_state) ELSE [kind |-> "skipped"]
        try_path == strip(artifact_path) # "" /\ r1.kind # "artifact"
                    /\ r2.kind \notin {"artifact", "raised"}
        r3 == IF try_path THEN read_file(path_state) ELSE [kind |-> "skipped"]
        tried == (IF try_object THEN <<"object_path">> ELSE <<>>)
                 \o (IF try_file THEN <<"file_path">> ELSE <<>>)
                 \o (IF try_path THEN <<"matrix_artifact_path">> ELSE <<>>)
        errors == {r \in {<<1, r1>>, <<2, r2>>, <<3, r3>>} : r[2].kind = "error_noted"}
    IN  IF r1.kind = "artifact" THEN [result |-> "artifact", source |-> "object_path", tried |-> tried]
        ELSE IF r2.kind = "artifact" THEN [result |-> "artifact", source |-> "file_path", tried |-> tried]
        ELSE IF r2.kind = "raised" THEN [result |-> r2.code, source |-> "file_path", tried |-> tried]
        ELSE IF r3.kind = "artifact"
             THEN [result |-> "artifact", source |-> "matrix_artifact_path", tried |-> tried]
        ELSE IF r3.kind = "raised"
             THEN [result |-> r3.code, source |-> "matrix_artifact_path", tried |-> tried]
        ELSE IF errors = {}
             THEN [result |-> "MATRIX_ARTIFACT_MISSING", source |-> "none", tried |-> tried]
        ELSE [result |-> "MATRIX_ARTIFACT_LOAD_FAILED", source |-> "none", tried |-> tried]

LoadArtifact(ref, artifact_path, object_state, file_state, path_state) ==
    /\ fn' = [op |-> "load_artifact", ref |-> ref, artifact_path |-> artifact_path,
              object_state |-> object_state, file_state |-> file_state,
              path_state |-> path_state,
              out |-> load_matrix_artifact_for_optimize(ref, artifact_path, object_state,
                                                        file_state, path_state)]
    /\ UNCHANGED <<pipeline, routes>>

NextArtifact ==
    \E ref \in ArtifactRefs, artifact_path \in PathStrings, object_state \in ObjectStates,
       file_state \in FileStates, path_state \in FileStates :
        LoadArtifact(ref, artifact_path, object_state, file_state, path_state)

SpecArtifact == Init /\ [][NextArtifact]_vars

\* ---- the solve of the OPTIMIZE step (services/optimization.py, vrptw.py) ----

MaxStops == 3
DemandValues == 0..2
\* Stop.demand of the dataset's stops, in node order
StopDemandLists == UNION {[1..n -> DemandValues] : n \in 1..MaxStops}
NoCapacity == -1
Capacities == {NoCapacity, 1, 2, 4}
VehicleCounts == 1..2

RECURSIVE SumSeq(_)
SumSeq(s) == IF s = <<>> THEN 0 ELSE s[1] + SumSeq(Tail(s))

RECURSIVE SumOver(_, _)
\* the demand of a set of nodes
SumOver(nodes, demands) ==
    IF nodes = {} THEN 0
    ELSE LET n == CHOOSE x \in nodes : TRUE
         IN  demands[n] + SumOver(nodes \ {n}, demands)

\* the demands list of the matrix artifact: the depot, then every stop
artifact_demands(stops) == <<0>> \o stops

\* mutant of categorize_infeasibility: the time windows are looked at first
categorize_infeasibility_windows_first(stops, capacity, num_vehicles, tw_conflict) ==
    IF tw_conflict THEN "time window conflict"
    ELSE IF /\ capacity # NoCapacity
            /\ capacity > 0
            /\ SumSeq([i \in DOMAIN stops |-> Max(0, stops[i])]) > capacity * num_vehicles
         THEN "capacity exceeded"
         ELSE "other constraint"

\* _categorize_infeasibility: the reason of an infeasible plan
categorize_infeasibility(stops, capacity, num_vehicles, tw_conflict) ==
    IF /\ capacity # NoCapacity
       /\ capacity > 0
       /\ SumSeq([i \in DOMAIN stops |-> Max(0, stops[i])]) > capacity * num_vehicles
    THEN "capacity exceeded"
    ELSE IF tw_conflict THEN "time window conflict" ELSE "other constraint"

NoSolution == [feasible |-> FALSE, unserved_nodes |-> {}]

\* the nodes of `served` fit into the vehicles (the capacity dimension of
\* the routing model is a hard constraint)
Fits(served, demands, capacity, num_vehicles) ==
    \/ capacity = NoCapacity
    \/ \E f \in [served -> 1..num_vehicles] :
          \A v \in 1..num_vehicles :
             SumOver({n \in served : f[n] = v}, demands) <= capacity

\* what solve_vrptw can return: no solution (infeasible, or none found in
\* the time limit), or routes that leave some nodes unserved, which needs
\* the disjunctions of allow_drop_visits
solve_vrptw(demands, capacity, num_vehicles, allow_drop_visits) ==
    LET nodes == 2..Len(demands)
    IN  {NoSolution} \cup
        {[feasible |-> TRUE, unserved_nodes |-> nodes \ served] :
            served \in {S \in SUBSET nodes :
                           /\ allow_drop_visits \/ S = nodes
                           /\ Fits(S, demands, capacity, num_vehicles)}}

\* solve_optimization_from_artifact, lines 609-697: the capacity test, the
\* search and the status of the plan
solve_optimization_from_artifact(stops, capacity, num_vehicles, allow_drop_visits, tw_conflict, result) ==
    LET demands == artifact_demands(stops)
        reason  == categorize_infeasibility(stops, capacity, num_vehicles, tw_conflict)
    IN  IF capacity # NoCapacity /\ SumSeq(demands) > capacity * num_vehicles
        THEN [plan_id |-> 1, feasible |-> FALSE, status |-> "INFEASIBLE",
              infeasibility_reason |-> reason, unserved |-> {},
              search_invoked |-> FALSE]
        ELSE IF ~result.feasible
        THEN [plan_id |-> 1, feasible |-> FALSE, status |-> "INFEASIBLE",
              infeasibility_reason |-> reason, unserved |-> {},
              search_invoked |-> TRUE]
        ELSE [plan_id |-> 1, feasible |-> TRUE,
              status |-> IF result.unserved_nodes = {} THEN "SUCCESS" ELSE "PARTIAL",
              infeasibility_reason |-> "", unserved |-> result.unserved_nodes,
              search_invoked |-> TRUE]

\* one call of solve_optimization_from_artifact
Solve(stops, capacity, num_vehicles, allow_drop_visits, tw_conflict) ==
    /\ fn = NoCall
    /\ \E result \in solve_vrptw(artifact_demands(stops), capacity, num_vehicles,
                                 allow_drop_visits) :
          fn' = [op |-> "solve", stops |-> stops, capacity |-> capacity,
                 num_vehicles |-> num_vehicles,
                 allow_drop_visits |-> allow_drop_visits,
                 tw_conflict |-> tw_conflict, result |-> result,
                 out |-> solve_optimization_from_artifact(
                             stops, capacity, num_vehicles, allow_drop_visits,
                             tw_conflict, result)]
    /\ UNCHANGED <<pipeline, routes>>

NextSolve ==
    \E stops \in StopDemandLists, capacity \in Capacities, num_vehicles \in VehicleCounts,
       allow_drop_visits \in BOOLEAN, tw_conflict \in BOOLEAN :
       Solve(stops, capacity, num_vehicles, allow_drop_visits, tw_conflict)

SpecSolve == Init /\ [][NextSolve]_vars

\* ---- the OPTIMIZE and GENERATE_EXPORTS units inside the pipeline ----

\* mutant of run_generate_exports_step: no look at the feasible flag
run_generate_exports_step_needs_routes(optimize_result, exports_fail) ==
    IF optimize_result.feasible = FALSE \/ optimize_result.plan_id <= 0
    THEN [kind |-> "raised", exc |-> "AppError"]
    ELSE IF exports_fail
         THEN [kind |-> "raised", exc |-> "Exception"]
         ELSE [kind |-> "returned", exports_skipped |-> FALSE]

\* _run_optimize_step, line 411: the partial merged into result_ref
run_optimize_step(optimize_result) ==
    [optimize |-> optimize_result, plan_id |-> optimize_result.plan_id]

\* _run_generate_exports_step, lines 421-431, and whether the rendering
\* after them raises
run_generate_exports_step(optimize_result, exports_fail) ==
    IF optimize_result.feasible = FALSE
    THEN [kind |-> "returned", exports_skipped |-> TRUE]
    ELSE IF optimize_result.plan_id <= 0
         THEN [kind |-> "raised", exc |-> "AppError"]
         ELSE IF exports_fail
              THEN [kind |-> "raised", exc |-> "Exception"]
              ELSE [kind |-> "returned", exports_skipped |-> FALSE]

\* the requests of the jobs followed through the pipeline
TailStops == {<<1, 1, 1>>, <<2>>, <<1, 1>>}
TailCapacities == {NoCapacity, 2}

\* the OPTIMIZE unit: the solve returns, feasible or not, and the dispatcher
\* merges its result and completes the step
OptimizeUnit(w, stops, capacity, allow_drop_visits) ==
    /\ wstep[w] = "OPTIMIZE"
    /\ UnitReturns(w)
    /\ \E result \in solve_vrptw(artifact_demands(stops), capacity, 1, allow_drop_visits) :
          fn' = [op |-> "optimize_step",
                 merged |-> has_step_lock(mem[w], wstep[w], tok[w]),
                 partial |-> run_optimize_step(
                     solve_optimization_from_artifact(stops, capacity, 1,
                                                      allow_drop_visits, FALSE, result))]

\* the GENERATE_EXPORTS unit reads the optimize result out of result_ref
ExportsUnit(w, exports_fail) ==
    /\ wstep[w] = "GENERATE_EXPORTS"
    /\ fn.op = "optimize_step"
    /\ fn.merged
    /\ LET r == run_generate_exports_step(fn.partial.optimize, exports_fail)
       IN  /\ IF r.kind = "returned"
              THEN UnitReturns(w)
              ELSE /\ pc[w] = "unit"
                   /\ LET f == fail_step(mem[w], wstep[w], tok[w], error_code_of(r.exc),
                                          error_detail_of(r.exc), now)
                      IN  job' = IF f.ok THEN Commit(mem[w], f.row) ELSE job
                   /\ Close(w, "failed")
                   /\ UNCHANGED <<now, enq, delivered, drill, routes>>
           /\ fn' = [op |-> "exports_step", optimize |-> fn.partial.optimize, out |-> r]

\* the undisturbed run with the results of the last two units looked into
NextTail ==
    \/ Tick
    \/ \E w \in Workers, s \in Steps : DeliverOnce(w, s)
    \/ \E w \in Workers : LockStep(w)
    \/ \E w \in Workers, p \in InnerProgress : EmitProgress(w, p)
    \/ \E w \in Workers : wstep[w] \in {"GEOCODE", "BUILD_MATRIX"} /\ FinishStep(w)
    \/ \E w \in Workers, stops \in TailStops, capacity \in TailCapacities,
          allow_drop_visits \in BOOLEAN :
          OptimizeUnit(w, stops, capacity, allow_drop_visits)
    \/ \E w \in Workers, exports_fail \in BOOLEAN : ExportsUnit(w, exports_fail)
    \/ \E w \in Workers : FinalizeJob(w)

SpecTail == Init /\ [][NextTail]_vars /\ WF_vars(NextTail)

\* ---- the BUILD_MATRIX unit (optimization.py:312-543, job_pipeline.py:315-341) ----

MaxNodes == 3
\* the depot and the geocoded stops
NodeCounts == 2..MaxNodes

\* the ordered pairs the two loops of lines 382-383 visit, in their order
RECURSIVE PairsFrom(_, _, _)
PairsFrom(n, i, j) ==
    IF i > n THEN <<>>
    ELSE IF j > n THEN PairsFrom(n, i + 1, 1)
    ELSE IF i = j THEN PairsFrom(n, i, j + 1)
    ELSE <<(<<i, j>>)>> \o PairsFrom(n, i, j + 1)

OrderedPairs(n) == PairsFrom(n, 1, 1)

\* how get_base_route and predict_duration end for a pair
PairOutcomes == {"resolved", "raised"}

\* mutant of build_optimization_matrix_artifact: the except clause taken
\* out, a pair that cannot be resolved is skipped and the loop goes on
build_optimization_matrix_artifact_skips_failures(n, resolve) ==
    [kind |-> "returned",
     cells |-> {p \in DOMAIN resolve : resolve[p] = "resolved"}]

RECURSIVE BuildMatrix(_, _, _)
\* lines 382-446: the pairs are resolved one after the other; the first
\* exception is logged and raised again as AppError ROUTING_ERROR
BuildMatrix(pairs, resolve, cells) ==
    IF pairs = <<>> THEN [kind |-> "returned", cells |-> cells]
    ELSE IF resolve[Head(pairs)] = "raised"
         THEN [kind |-> "raised", exc |-> "AppError", cells |-> cells]
         ELSE BuildMatrix(Tail(pairs), resolve, cells \cup {Head(pairs)})

\* build_optimization_matrix_artifact for n nodes; cells are the pairs whose
\* duration the matrix holds
build_optimization_matrix_artifact(n, resolve) ==
    BuildMatrix(OrderedPairs(n), resolve, {})

\* _run_build_matrix_step: the artifact is saved and uploaded only after the
\* build returned; saved is what save_matrix_artifact has written
run_build_matrix_step(n, resolve) ==
    LET artifact == build_optimization_matrix_artifact(n, resolve)
    IN  IF artifact.kind = "raised"
        THEN [kind |-> "raised", exc |-> artifact.exc, saved |-> {},
              partial |-> {}]
        ELSE [kind |-> "returned", saved |-> {artifact.cells},
              partial |-> {"matrix_artifact_path", "matrix_artifact_ref"}]

\* the BUILD_MATRIX unit inside the dispatcher: what it returns is merged
\* and the step completed, what it raises fails the step
BuildMatrixUnit(w, n, resolve) ==
    /\ wstep[w] = "BUILD_MATRIX"
    /\ LET r == run_build_matrix_step(n, resolve)
       IN  /\ IF r.kind = "returned"
              THEN UnitReturns(w)
              ELSE /\ pc[w] = "unit"
                   /\ LET f == fail_step(mem[w], wstep[w], tok[w], error_code_of(r.exc),
                                          error_detail_of(r.exc), now)
                      IN  job' = IF f.ok THEN Commit(mem[w], f.row) ELSE job
                   /\ Close(w, "failed")
                   /\ UNCHANGED <<now, enq, delivered, drill, routes>>
           /\ fn' = [op |-> "build_matrix_step", nodes |-> n, resolve |-> resolve,
                     out |-> r]

\* the undisturbed run with the BUILD_MATRIX unit looked into
NextBuild ==
    \/ Tick
    \/ \E w \in Workers, s \in Steps : DeliverOnce(w, s)
    \/ \E w \in Workers : LockStep(w)
    \/ \E w \in Workers, p \in InnerProgress : EmitProgress(w, p)
    \/ \E w \in Workers : wstep[w] # "BUILD_MATRIX" /\ FinishStep(w)
    \/ \E w \in Workers, n \in NodeCounts :
          \E resolve \in [{OrderedPairs(n)[k] : k \in DOMAIN OrderedPairs(n)} -> PairOutcomes] :
             BuildMatrixUnit(w, n, resolve)
    \/ \E w \in Workers : FinalizeJob(w)

SpecBuild == Init /\ [][NextBuild]_vars

\* ---- get_base_route as the workers run it ----

\* get_base_route up to the provider call, lines 54-96: the same-point
\* answer, the key-value cache, then the od_cache table (scalar_one_or_none
\* raises MultipleResultsFound on more than one row)
RouteLookup(w, req) ==
    /\ routes.rpc[w] = "idle"
    /\ routes.requests < MaxRequests
    /\ LET k    == route_key(req)
           rows == {i \in DOMAIN routes.od : routes.od[i].key = k}
           r0   == [routes EXCEPT !.requests = @ + 1, !.who = w, !.req[w] = req]
       IN  routes' =
             IF req.origin = req.dest
             THEN [r0 EXCEPT !.last[w] = [source |-> "same_point", od_cache_id |-> -1]]
             ELSE IF routes.kv[k] # 0
             THEN [r0 EXCEPT !.last[w] = [source |-> "kv", od_cache_id |-> routes.kv[k]]]
             ELSE IF Cardinality(rows) > 1
             THEN [r0 EXCEPT !.last[w] = [source |-> "raised", od_cache_id |-> 0]]
             ELSE IF Cardinality(rows) = 1
             THEN LET id == CHOOSE i \in rows : TRUE
                  IN  [r0 EXCEPT !.kv[k] = id,
                                 !.last[w] = [source |-> "db", od_cache_id |-> id]]
             ELSE [r0 EXCEPT !.rpc[w] = "calling", !.last[w] = NoResult]
    /\ UNCHANGED <<pipeline, fn>>

\* get_base_route from the provider call on, lines 98-122: the answer is
\* inserted into od_cache, committed and put into the key-value cache
RouteResolve(w, answer) ==
    /\ routes.rpc[w] = "calling"
    /\ LET k  == route_key(routes.req[w])
           r0 == [routes EXCEPT !.calls = @ + 1, !.rpc[w] = "idle"]
           id == Len(routes.od) + 1
       IN  routes' =
             IF answer.kind = "raised"
             THEN [r0 EXCEPT !.last[w] = [source |-> "raised", od_cache_id |-> 0]]
             ELSE [r0 EXCEPT
                     !.od = Append(@, [key |-> k, is_fallback |-> answer.is_fallback]),
                     !.kv[k] = id,
                     !.last[w] = [source |-> "provider", od_cache_id |-> id],
                     !.resolved = @ \cup {k}]
    /\ UNCHANGED <<pipeline, fn>>

\* an entry of the key-value cache reaches its ttl_seconds
KvExpire(k) ==
    /\ routes.kv[k] # 0
    /\ routes' = [routes EXCEPT !.kv[k] = 0]
    /\ UNCHANGED <<pipeline, fn>>

NextRoute ==
    \/ \E w \in Workers, req \in RouteRequests : RouteLookup(w, req)
    \/ \E w \in Workers, answer \in ProviderAnswers : RouteResolve(w, answer)
    \/ \E k \in RouteKeys : KvExpire(k)

SpecRoute == Init /\ [][NextRoute]_vars

\* ---- live traffic ETAs of a solved plan (optimization.py:761-868, 928-930) ----

MaxRoutes == 2
\* a route of the solution: whether it has fewer than two nodes, and how the
\* traffic provider answers for it
RouteShapes == [short : BOOLEAN, provider : {"ok", "GoogleTrafficError", "Exception"}]
RouteLists == UNION {[1..n -> RouteShapes] : n \in 1..MaxRoutes}

\* what build_optimization_matrix_artifact and the vertex batch leave in the
\* artifact
MatrixArtifacts ==
    [matrix_strategy : {"ml_uplift", "onemap", "ml_baseline"},
     chosen_model_version : {"", "fallback_v1", "v3"}]

NoStamp == 0

\* _eta_source_from_artifact
eta_source_from_artifact(artifact) ==
    IF artifact.matrix_strategy = "ml_uplift" THEN "ml_uplift"
    ELSE IF artifact.chosen_model_version \in {"", "fallback_v1"} THEN "onemap"
    ELSE "ml_baseline"

\* mutant of recompute_routes: a route the provider fails for keeps its
\* matrix estimate and the loop goes on
recompute_routes_ignores_failures(route_records) ==
    [kind |-> "ok",
     durations |-> [i \in DOMAIN route_records |->
                       IF route_records[i].short \/ route_records[i].provider # "ok"
                       THEN "matrix" ELSE "google"],
     stamp |-> 1]

RECURSIVE RecomputeFrom(_, _, _, _)
\* the loop of lines 773-830 from route i on; stamp is the route whose
\* departure became traffic_timestamp
RecomputeFrom(route_records, i, stamp, durations) ==
    IF i > Len(route_records)
    THEN [kind |-> "ok", durations |-> durations, stamp |-> stamp]
    ELSE IF route_records[i].short
    THEN RecomputeFrom(route_records, i + 1, stamp, Append(durations, "matrix"))
    ELSE LET stamped == IF stamp = NoStamp THEN i ELSE stamp
         IN  IF route_records[i].provider # "ok"
             THEN [kind |-> "raised", durations |-> durations, stamp |-> stamped]
             ELSE RecomputeFrom(route_records, i + 1, stamped,
                                Append(durations, "google"))

\* lines 772-830: every route is recomputed from the provider's legs
recompute_routes(route_records) == RecomputeFrom(route_records, 1, NoStamp, <<>>)

\* lines 761-868 and 928-930: where the durations of the stored plan come
\* from, its eta_source and its traffic_timestamp
live_traffic_etas(route_records, use_live_traffic, feature_google_traffic, enabled, artifact) ==
    LET matrix   == [i \in DOMAIN route_records |-> "matrix"]
        baseline == [feasible |-> TRUE, durations |-> matrix,
                     eta_source |-> eta_source_from_artifact(artifact),
                     traffic_timestamp |-> NoStamp]
        r        == recompute_routes(route_records)
    IN  IF ~(feature_google_traffic /\ use_live_traffic)
        THEN baseline
             @@ [warnings |-> IF use_live_traffic THEN {"flag disabled"} ELSE {}]
        ELSE IF ~enabled \/ r.kind = "raised"
        THEN baseline @@ [warnings |-> {"Google traffic unavailable"}]
        ELSE [feasible |-> TRUE, durations |-> r.durations,
              eta_source |-> "google_traffic", traffic_timestamp |-> r.stamp,
              warnings |-> {}]

\* one feasible solve with its live traffic stage
LiveTraffic(route_records, use_live_traffic, feature_google_traffic, enabled, artifact) ==
    /\ fn = NoCall
    /\ fn' = [op |-> "live_traffic", route_records |-> route_records,
              use_live_traffic |-> use_live_traffic,
              feature_google_traffic |-> feature_google_traffic,
              enabled |-> enabled, artifact |-> artifact,
              out |-> live_traffic_etas(route_records, use_live_traffic,
                                        feature_google_traffic, enabled, artifact)]
    /\ UNCHANGED <<pipeline, routes>>

NextTraffic ==
    \E route_records \in RouteLists, use_live_traffic \in BOOLEAN,
       feature_google_traffic \in BOOLEAN, enabled \in BOOLEAN,
       artifact \in MatrixArtifacts :
       LiveTraffic(route_records, use_live_traffic, feature_google_traffic, enabled, artifact)

SpecTraffic == Init /\ [][NextTraffic]_vars

\* ---- outbound provider calls (onemap_client.py:79-117, google_routes.py:226-293) ----

\* what one attempt of a call meets: an HTTP status, or no response at all
Timeout == -1
RequestError == -2
Responses == {200, 401, 404, 429, 501, 503, Timeout, RequestError}

\* retryable status codes that take in 404
RetryStatusesWithNotFound == {404, 429, 500, 502, 503, 504}

\* the status codes both clients treat as retryable
RetryStatuses == {429, 500, 502, 503, 504}

OneMapMaxAttempts == 4
GoogleMaxAttempts == 3
Providers == {"onemap", "google"}

max_attempts(provider) ==
    IF provider = "onemap" THEN OneMapMaxAttempts ELSE GoogleMaxAttempts

\* the answers the attempts of one call would meet, one per attempt
ResponseLists(provider) == [1..max_attempts(provider) -> Responses]

RECURSIVE OneMapAttempt(_, _, _, _)
\* OneMapClient._request_with_retries from attempt number `attempt` on
\* (counted from 1); refreshed tells that the token was renewed after a 401
OneMapAttempt(responses, attempt, refreshed, mock_mode) ==
    IF attempt > OneMapMaxAttempts
    THEN [kind |-> "raised", error |-> "RuntimeError", attempts |-> OneMapMaxAttempts]
    ELSE LET resp == responses[attempt]
             last == attempt = OneMapMaxAttempts
         IN  IF resp \in {Timeout, RequestError}
             THEN IF last
                  THEN [kind |-> "raised", error |-> "RequestError", attempts |-> attempt]
                  ELSE OneMapAttempt(responses, attempt + 1, refreshed, mock_mode)
             ELSE IF resp = 401 /\ ~mock_mode /\ ~refreshed
             THEN OneMapAttempt(responses, attempt + 1, TRUE, mock_mode)
             ELSE IF resp \in RetryStatuses
             THEN IF last
                  THEN [kind |-> "raised", error |-> "HTTPStatusError", attempts |-> attempt]
                  ELSE OneMapAttempt(responses, attempt + 1, refreshed, mock_mode)
             ELSE IF resp >= 400
             THEN [kind |-> "raised", error |-> "HTTPStatusError", attempts |-> attempt]
             ELSE [kind |-> "returned", error |-> "", attempts |-> attempt]

\* OneMapClient._request_with_retries
request_with_retries(responses, mock_mode) ==
    OneMapAttempt(responses, 1, FALSE, mock_mode)

RECURSIVE GoogleAttempt(_, _)
\* GoogleRoutesProvider._post from attempt number `attempt` on
GoogleAttempt(responses, attempt) ==
    IF attempt > GoogleMaxAttempts
    THEN [kind |-> "raised", error |-> "GOOGLE_ROUTES_ERROR", attempts |-> GoogleMaxAttempts]
    ELSE LET resp == responses[attempt]
             last == attempt = GoogleMaxAttempts
         IN  IF resp = Timeout
             THEN IF last
                  THEN [kind |-> "raised", error |-> "GOOGLE_ROUTES_TIMEOUT", attempts |-> attempt]
                  ELSE GoogleAttempt(responses, attempt + 1)
             ELSE IF resp = RequestError
             THEN IF last
                  THEN [kind |-> "raised", error |-> "GOOGLE_ROUTES_REQUEST_ERROR",
                        attempts |-> attempt]
                  ELSE GoogleAttempt(responses, attempt + 1)
             ELSE IF resp \in RetryStatuses
             THEN IF last
                  THEN [kind |-> "raised", error |-> "GOOGLE_ROUTES_UNAVAILABLE",
                        attempts |-> attempt]
                  ELSE GoogleAttempt(responses, attempt + 1)
             ELSE IF resp >= 400
             THEN [kind |-> "raised", error |-> "GOOGLE_ROUTES_REJECTED", attempts |-> attempt]
             ELSE [kind |-> "returned", error |-> "", attempts |-> attempt]

\* GoogleRoutesProvider._post
post(responses) == GoogleAttempt(responses, 1)

\* one outbound call of a provider client
ProviderCall(provider, responses, mock_mode) ==
    /\ fn = NoCall
    /\ provider = "google" => ~mock_mode
    /\ fn' = [op |-> "provider_call", provider |-> provider, responses |-> responses,
              mock_mode |-> mock_mode,
              out |-> IF provider = "onemap"
                      THEN request_with_retries(responses, mock_mode)
                      ELSE post(responses)]
    /\ UNCHANGED <<pipeline, routes>>

NextProvider ==
    \E provider \in Providers, mock_mode \in BOOLEAN :
       \E responses \in ResponseLists(provider) :
          ProviderCall(provider, responses, mock_mode)

SpecProvider == Init /\ [][NextProvider]_vars

\* ---- resequencing one route of a plan (optimization.py:967-1358) ----

\* the plan under resequencing: route 1 serves stops 1 and 2, route 2 stop 3
MaxPlanRoutes == 2
PlanRouteIds == 1..MaxPlanRoutes
RouteStopIds(r) == IF r = 1 THEN {1, 2} ELSE {3}
PlanStopIds == UNION {RouteStopIds(r) : r \in PlanRouteIds}

\* stop_id of the depot rows of a route (stop_id None in the source)
Depot == 0

\* seconds after the start of the workday
DepartSeconds == 0
LegSeconds == 1
WindowStarts == {0, 3}
TimeWindows == [PlanStopIds -> WindowStarts]

\* the orders in which a set of stops can be visited
Orders(ids) ==
    {o \in UNION {[1..n -> ids] : n \in 0..Cardinality(ids)} :
        /\ Len(o) = Cardinality(ids)
        /\ \A i, j \in 1..Len(o) : i # j => o[i] # o[j]}

\* the lists a request may carry as ordered_stop_ids
OrderedStopIdLists == UNION {[1..n -> PlanStopIds] : n \in 1..2}

RECURSIVE TimelineFrom(_, _, _, _)
\* the rows of the timeline after the stop at position idx - 1: each stop is
\* reached one leg after the previous service ended and served from the
\* later of its arrival and its window start (service time zero); the
\* closing depot row carries the arrival back at the depot
TimelineFrom(ordered_stops, idx, current_dt, tw) ==
    LET arrival_dt == current_dt + LegSeconds
    IN  IF idx > Len(ordered_stops)
        THEN <<[stop_id |-> Depot, eta |-> arrival_dt]>>
        ELSE LET tw_start == tw[ordered_stops[idx]]
                 service_start_dt == IF arrival_dt > tw_start THEN arrival_dt ELSE tw_start
             IN  <<[stop_id |-> ordered_stops[idx], eta |-> service_start_dt]>>
                 \o TimelineFrom(ordered_stops, idx + 1, service_start_dt, tw)

\* the timeline of a route: the opening depot row, the stops, the closing
\* depot row (optimization.py:1069-1249)
Timeline(ordered_stops, tw) ==
    <<[stop_id |-> Depot, eta |-> DepartSeconds]>>
    \o TimelineFrom(ordered_stops, 1, DepartSeconds, tw)

MaxOf(S) == CHOOSE x \in S : \A y \in S : y <= x
MinOf(S) == CHOOSE x \in S : \A y \in S : x <= y

\* latest end minus earliest start over the routes that have stops
\* (optimization.py:928 and 1312-1324)
Makespan(route_stops) ==
    LET rs == {r \in DOMAIN route_stops : Len(route_stops[r]) > 0}
    IN  MaxOf({route_stops[r][Len(route_stops[r])].eta : r \in rs})
        - MinOf({route_stops[r][1].eta : r \in rs})

\* the stop ids of a route's rows, depot rows left out, by sequence_idx
StopIdsOf(rows) == SelectSeq([i \in 1..Len(rows) |-> rows[i].stop_id], LAMBDA s : s # Depot)

\* the stored plans: every route holds the timeline of some order of its
\* stops and the plan holds the makespan the persister computed from them
PlanDbs ==
    {[tw |-> tw,
      route_stops |-> [r \in PlanRouteIds |-> Timeline(order[r], tw)],
      total_makespan_s |-> Makespan([r \in PlanRouteIds |-> Timeline(order[r], tw)])] :
        tw \in TimeWindows,
        order \in {f \in [PlanRouteIds -> UNION {Orders(RouteStopIds(r)) : r \in PlanRouteIds}] :
                      \A r \in PlanRouteIds : f[r] \in Orders(RouteStopIds(r))}}

\* sorted(existing_ids) != sorted(ordered_stop_ids) (optimization.py:989)
SameIds(a, b) ==
    /\ Len(a) = Len(b)
    /\ \A s \in PlanStopIds :
          Cardinality({i \in 1..Len(a) : a[i] = s}) = Cardinality({i \in 1..Len(b) : b[i] = s})

\* resequence_route. The route is loaded with its route_stops collection at
\* 977-979 and stays in the session; the old rows are deleted by a bulk
\* DELETE and the new rows are added to the session by route_id only
\* (1290-1304), not through route.route_stops, and the session does not
\* autoflush (utils/db.py:37). The query of 1310 returns the same Route
\* object with its loaded collection, so the makespan of 1311-1324 is taken
\* over the route's rows as they were before the replacement.
resequence_route(db, route_id, ordered_stop_ids, apply_changes) ==
    IF route_id \notin PlanRouteIds
    THEN [out |-> [kind |-> "raised", error_code |-> "NOT_FOUND", stops |-> <<>>], db |-> db]
    ELSE IF ~SameIds(StopIdsOf(db.route_stops[route_id]), ordered_stop_ids)
    THEN [out |-> [kind |-> "raised", error_code |-> "VALIDATION_ERROR", stops |-> <<>>],
          db |-> db]
    ELSE LET timeline == Timeline(ordered_stop_ids, db.tw)
             other_routes == db.route_stops
         IN  [out |-> [kind |-> "returned", error_code |-> "", stops |-> timeline],
              db |-> IF apply_changes
                     THEN [db EXCEPT !.route_stops[route_id] = timeline,
                                     !.total_makespan_s = Makespan(other_routes)]
                     ELSE db]

\* POST /plans/{plan_id}/routes/{route_id}/resequence (api/plans.py:123-137)
Resequence(db, route_id, ordered_stop_ids, apply_changes) ==
    /\ fn = NoCall
    /\ LET r == resequence_route(db, route_id, ordered_stop_ids, apply_changes)
       IN  fn' = [op |-> "resequence", before |-> db, route_id |-> route_id,
                  ordered_stop_ids |-> ordered_stop_ids, apply |-> apply_changes,
                  out |-> r.out, after |-> r.db]
    /\ UNCHANGED <<pipeline, routes>>

NextResequence ==
    \E db \in PlanDbs, route_id \in PlanRouteIds \cup {MaxPlanRoutes + 1} :
       \E ordered_stop_ids \in OrderedStopIdLists, apply_changes \in BOOLEAN :
          Resequence(db, route_id, ordered_stop_ids, apply_changes)

SpecResequence == Init /\ [][NextResequence]_vars

\* ---- optimize entry points and the scale guardrail ----
\* (scale_guardrails.py:11-64, api/datasets.py:99-170, api/jobs.py:39-54)

MaxStopCount == 3
StopCounts == 0..MaxStopCount
\* values of settings.optimize_max_stops and optimize_max_matrix_elements
\* (both ge=1, utils/settings.py:35-36)
MaxStopsSettings == {1, 2}
MaxMatrixSettings == {1, 5, 12}
EntryPoints == {"datasets_optimize", "datasets_optimize_sync", "jobs_optimize", "ab_test"}

\* max(0, node_count * node_count - node_count) with node_count = stop_count + 1
estimated_matrix_elements(stop_count) ==
    LET node_count == stop_count + 1
        v == node_count * node_count - node_count
    IN  IF v > 0 THEN v ELSE 0

\* what a request leaves behind: its answer, the jobs created and the tasks
\* enqueued
Rejected(error_code) ==
    [kind |-> "raised", error_code |-> error_code, jobs_created |-> 0, enqueued |-> 0]

Accepted(jobs_created, enqueued) ==
    [kind |-> "returned", error_code |-> "", jobs_created |-> jobs_created,
     enqueued |-> enqueued]

\* validate_optimize_request_scale: the error code it raises, "" when it returns
validate_optimize_request_scale(dataset_exists, stop_count, max_stops, max_matrix_elements) ==
    IF ~dataset_exists THEN "NOT_FOUND"
    ELSE IF stop_count > max_stops THEN "OPTIMIZE_MAX_STOPS_EXCEEDED"
    ELSE IF estimated_matrix_elements(stop_count) > max_matrix_elements
    THEN "OPTIMIZE_MAX_MATRIX_ELEMENTS_EXCEEDED"
    ELSE ""

\* POST /datasets/{dataset_id}/optimize: the guardrail, then either the
\* synchronous run (no job) or create_optimize_pipeline_job, which creates the
\* job and enqueues its GEOCODE task
optimize(sync, dataset_exists, stop_count, max_stops, max_matrix_elements) ==
    LET code == validate_optimize_request_scale(dataset_exists, stop_count, max_stops,
                                                max_matrix_elements)
    IN  IF code # "" THEN Rejected(code)
        ELSE IF sync THEN Accepted(0, 0)
        ELSE Accepted(1, 1)

\* POST /datasets/{dataset_id}/optimize/ab-test: the guardrail, then create_job
\* and enqueue_job
optimize_ab_test(dataset_exists, stop_count, max_stops, max_matrix_elements) ==
    LET code == validate_optimize_request_scale(dataset_exists, stop_count, max_stops,
                                                max_matrix_elements)
    IN  IF code # "" THEN Rejected(code) ELSE Accepted(1, 1)

\* POST /jobs/optimize: create_optimize_pipeline_job at once; neither the
\* handler nor create_optimize_pipeline_job (job_pipeline.py:158-198) looks at
\* the dataset
start_optimize_job(dataset_exists, stop_count, max_stops, max_matrix_elements) ==
    Accepted(1, 1)

\* one request to an optimize entry point
OptimizeRequest(entry, dataset_exists, stop_count, max_stops, max_matrix_elements) ==
    /\ fn = NoCall
    /\ fn' = [op |-> "optimize_request", entry |-> entry,
              dataset_exists |-> dataset_exists, stop_count |-> stop_count,
              max_stops |-> max_stops, max_matrix_elements |-> max_matrix_elements,
              out |-> CASE entry = "datasets_optimize" ->
                             optimize(FALSE, dataset_exists, stop_count, max_stops,
                                      max_matrix_elements)
                        [] entry = "datasets_optimize_sync" ->
                             optimize(TRUE, dataset_exists, stop_count, max_stops,
                                      max_matrix_elements)
                        [] entry = "ab_test" ->
                             optimize_ab_test(dataset_exists, stop_count, max_stops,
                                              max_matrix_elements)
                        [] OTHER ->
                             start_optimize_job(dataset_exists, stop_count, max_stops,
                                                max_matrix_elements)]
    /\ UNCHANGED <<pipeline, routes>>

NextOptimizeRequest ==
    \E entry \in EntryPoints, dataset_exists \in BOOLEAN, stop_count \in StopCounts :
       \E max_stops \in MaxStopsSettings, max_matrix_elements \in MaxMatrixSettings :
          /\ ~dataset_exists => stop_count = 0
          /\ OptimizeRequest(entry, dataset_exists, stop_count, max_stops,
                             max_matrix_elements)

SpecOptimizeRequest == Init /\ [][NextOptimizeRequest]_vars

\* ---- single-shot jobs (jobs.py:58-72, 333-344; job_tasks.py:203-247) ----

MaxJobDeliveries == 3
\* result_ref of a job: none yet, the result of a run, or {"error": ...}
NoResultRef == 0
ErrorResultRef == -1
JobResults == 1..2
\* job types run_job knows, and one it does not
SupportedJobTypes == {"GEOCODE_DATASET", "OPTIMIZE_DATASET", "EXPORT_PDF", "OPTIMIZE_AB_SIMULATION"}
JobTypes == SupportedJobTypes \cup {"UNSUPPORTED"}

\* create_job followed by enqueue_job: the job is stored QUEUED and one
\* kind="job" message is put on the queue
CreateSingleShotJob(job_type) ==
    /\ fn = NoCall
    /\ fn' = [op |-> "single_shot_job", type |-> job_type,
              status |-> "QUEUED", result_ref |-> NoResultRef,
              deliveries |-> 0, executions |-> 0, running |-> 0]
    /\ UNCHANGED <<pipeline, routes>>

\* a delivery of the job's message: dispatch_enqueued_task -> run_queued_job
\* loads the job and calls run_job, which stores RUNNING and enters the
\* job's body whatever the stored status is
RunJobStarts ==
    /\ fn.op = "single_shot_job"
    /\ fn.deliveries < MaxJobDeliveries
    /\ fn' = [fn EXCEPT !.status = "RUNNING",
                        !.deliveries = @ + 1,
                        !.executions = @ + 1,
                        !.running = @ + 1]
    /\ UNCHANGED <<pipeline, routes>>

\* the body of a run_job call returns: SUCCEEDED with its result
RunJobReturns(result) ==
    /\ fn.op = "single_shot_job"
    /\ fn.type \in SupportedJobTypes
    /\ fn.running > 0
    /\ fn' = [fn EXCEPT !.status = "SUCCEEDED", !.result_ref = result, !.running = @ - 1]
    /\ UNCHANGED <<pipeline, routes>>

\* the body of a run_job call raises, as it does at once for a job type
\* run_job does not know: FAILED with {"error": message}
RunJobRaises ==
    /\ fn.op = "single_shot_job"
    /\ fn.running > 0
    /\ fn' = [fn EXCEPT !.status = "FAILED", !.result_ref = ErrorResultRef, !.running = @ - 1]
    /\ UNCHANGED <<pipeline, routes>>

NextSingleShot ==
    \/ \E job_type \in JobTypes : CreateSingleShotJob(job_type)
    \/ RunJobStarts
    \/ \E result \in JobResults : RunJobReturns(result)
    \/ RunJobRaises

SpecSingleShot == Init /\ [][NextSingleShot]_vars

TypeOK ==
    /\ job.status \in {"QUEUED", "RUNNING", "SUCCEEDED", "FAILED", "CANCELLED"}
    /\ job.progress_pct \in 0..100
    /\ now \in 0..MaxTime
    /\ delivered \in 0..MaxDeliveries
    /\ drill \in Steps \cup {NoStep}

\* ----------------------------------------------------------------- claims
\* worker w leaves lock_step in this step
LockReturns(w) == pc[w] = "lock" /\ pc'[w] # "lock"

\* worker w's unit ends in this step, by returning or by raising
UnitEnds(w) == pc[w] = "unit" /\ pc'[w] # "unit"

\* the stored entry of the step worker w is processing
Stored(w) == job.steps[wstep[w]]

\* C1: of two LockStep calls on the same step that both found it PENDING,
\* exactly one returns true: never do two workers both hold a lock they
\* were granted on the PENDING step.
C1_ExactlyOneLockGranted ==
    \A w1, w2 \in Workers :
        (w1 # w2 /\ wstep[w1] = wstep[w2]
         /\ pc[w1] \in {"unit", "finalize"} /\ pc[w2] \in {"unit", "finalize"})
        => ~(saw[w1] = "PENDING" /\ saw[w2] = "PENDING")

\* C2: while the stored step is RUNNING under another token and its lease has
\* not expired, a LockStep call returns false and leaves the entry unchanged.
C2_FreshLockIsRefused ==
    [][\A w \in Workers :
          (/\ LockReturns(w)
           /\ Stored(w).status = "RUNNING"
           /\ Stored(w).lock_token # tok[w]
           /\ now < Stored(w).lease_expires_at)
          => (pc'[w] = "idle" /\ job'.steps[wstep[w]] = Stored(w))]_vars

\* C3: a LockStep call on a step its session loaded as RUNNING with an
\* expired lease returns true, stores its token and a new expiry, and the
\* stored stale_reclaimed grows by exactly 1.
C3_StaleLockIsReclaimed ==
    [][\A w \in Workers :
          (/\ LockReturns(w)
           /\ mem[w].steps[wstep[w]].status = "RUNNING"
           /\ step_lease_is_expired(mem[w].steps[wstep[w]], now))
          => (/\ pc'[w] = "unit"
              /\ job'.steps[wstep[w]].lock_token = tok[w]
              /\ job'.steps[wstep[w]].lease_expires_at = now + pipeline_step_lease_seconds
              /\ job'.steps[wstep[w]].stale_reclaimed = Stored(w).stale_reclaimed + 1)]_vars

\* C4: a step's stored status changes only PENDING -> RUNNING,
\* RUNNING -> SUCCEEDED or RUNNING -> FAILED; SUCCEEDED is never left.
C4_StepStatusOnlyAdvances ==
    [][\A s \in Steps :
          job'.steps[s].status # job.steps[s].status
          => <<job.steps[s].status, job'.steps[s].status>> \in
                {<<"PENDING", "RUNNING">>, <<"RUNNING", "SUCCEEDED">>,
                 <<"RUNNING", "FAILED">>}]_vars

\* C5: between two successive states in which the job is RUNNING,
\* progress_pct does not decrease.
C5_ProgressNeverDecreases ==
    [][(job.status = "RUNNING" /\ job'.status = "RUNNING")
       => job'.progress_pct >= job.progress_pct]_vars

\* C6: processing a message whose step was SUCCEEDED when the message was
\* delivered (the row the worker loaded shows it) ends without running the
\* unit (the worker goes back to idle) and with result_ref as it was.
C6_SucceededStepIsNotRerun ==
    [][\A w \in Workers :
          (LockReturns(w) /\ mem[w].steps[wstep[w]].status = "SUCCEEDED")
          => (pc'[w] = "idle" /\ job'.result_ref = job.result_ref)]_vars

\* C6 witness: one redelivery found its step SUCCEEDED with the next step
\* PENDING and enqueued that step again; another found the last step
\* SUCCEEDED and the job not yet SUCCEEDED, and marked the job.
C6_Witness ==
    \E w, v \in Workers :
        outcome[w] = "requeued_next" /\ outcome[v] = "marked_succeeded"

\* C7: a worker whose token is no longer the stored lock_token when its unit
\* ends merges nothing into result_ref and changes neither the step's status
\* nor the job's status.
C7_LostLockChangesNothing ==
    [][\A w \in Workers :
          (UnitEnds(w) /\ Stored(w).lock_token # tok[w])
          => (/\ job'.result_ref = job.result_ref
              /\ job'.steps[wstep[w]].status = Stored(w).status
              /\ job'.status = job.status)]_vars

\* C8: a write a worker computed from its loaded row never replaces a stored
\* value that changed after the load (lock_step and fail_step write steps,
\* status, progress_pct, current_step and error_code from the loaded row;
\* _merge_result writes result_ref from it).
C8_NoLostUpdate ==
    [][\A w \in Workers :
          /\ (LockReturns(w) \/ (UnitEnds(w) /\ outcome'[w] = "failed"))
             => \A c \in DOMAIN job : job'[c] # job[c] => mem[w][c] = job[c]
          /\ (UnitEnds(w) /\ job'.result_ref # job.result_ref)
             => mem[w].result_ref = job.result_ref]_vars

\* C9: complete_step called with a token that is not the stored lock_token
\* changes neither the step's status nor the job's status, progress_pct or
\* current_step.
C9_CompleteNeedsToken ==
    [][\A w \in Workers :
          (UnitEnds(w) /\ outcome'[w] # "failed" /\ Stored(w).lock_token # tok[w])
          => (/\ job'.steps[wstep[w]].status = Stored(w).status
              /\ job'.status = job.status
              /\ job'.progress_pct = job.progress_pct
              /\ job'.current_step = job.current_step)]_vars

\* C10: fail_step called with a token that is not the stored lock_token
\* changes neither the step's status nor the job's status.
C10_FailNeedsToken ==
    [][\A w \in Workers :
          (UnitEnds(w) /\ outcome'[w] = "failed" /\ Stored(w).lock_token # tok[w])
          => (/\ job'.steps[wstep[w]].status = Stored(w).status
              /\ job'.status = job.status)]_vars

\* C11: once the job is CANCELLED while a worker is executing a step unit,
\* the job's status stays CANCELLED, and when that worker's unit ends nothing
\* is merged into result_ref, the step does not become SUCCEEDED and no
\* message is enqueued.
C11_CancelledJobAbandonsResults ==
    [][\A w \in Workers :
          (pc[w] = "unit" /\ job.status = "CANCELLED")
          => /\ job'.status = "CANCELLED"
             /\ UnitEnds(w)
                => (/\ job'.result_ref = job.result_ref
                    /\ job'.steps[wstep[w]].status # "SUCCEEDED"
                    /\ enq' = enq)]_vars

\* C12: with a queue that redelivers a message until one delivery returns
\* without error, the job cannot stay unfinished forever: whenever no worker
\* is processing a message and the queue has none left to deliver (nothing
\* can happen any more), the job is SUCCEEDED or FAILED.
C12_StoppedWorkerIsRecovered ==
    ((\A w \in Workers : pc[w] = "idle") /\ (\A s \in Steps : enq[s] = 0))
    => job.status \in {"SUCCEEDED", "FAILED"}

\* C13: a message for step S that finds S SUCCEEDED in the row it loaded, on a
\* job that was not terminal, enqueues exactly one message for S's successor
\* and writes nothing when the successor is PENDING in that row; when the
\* successor is RUNNING, SUCCEEDED or FAILED it enqueues nothing and writes
\* nothing.
C13_RedeliveryRequeuesPendingSuccessor ==
    [][\A w \in Workers :
          (/\ LockReturns(w)
           /\ mem[w].steps[wstep[w]].status = "SUCCEEDED"
           /\ NEXT_STEP[wstep[w]] # NoStep)
          => /\ job' = job
             /\ enq' = IF mem[w].steps[NEXT_STEP[wstep[w]]].status = "PENDING"
                       THEN [enq EXCEPT ![NEXT_STEP[wstep[w]]] = @ + 1]
                       ELSE enq]_vars

\* OPTIMIZE was delivered again and GENERATE_EXPORTS has a second message,
\* while a redelivery of an earlier step ended without enqueuing anything
C13_Witness ==
    /\ \E w \in Workers : outcome[w] = "requeued_next"
    /\ \E w \in Workers : outcome[w] = "lock_refused"
    /\ enq["GENERATE_EXPORTS"] = 2
    /\ enq["BUILD_MATRIX"] = 1
    /\ enq["OPTIMIZE"] = 1

\* C14: a message for the last step, GENERATE_EXPORTS, that finds the step
\* SUCCEEDED and the job not yet SUCCEEDED marks the job SUCCEEDED with
\* progress_pct 100, and the stored result_ref keeps the content it had.
C14_FinalRedeliveryMarksJobSucceeded ==
    [][\A w \in Workers :
          (/\ LockReturns(w)
           /\ wstep[w] = "GENERATE_EXPORTS"
           /\ mem[w].steps["GENERATE_EXPORTS"].status = "SUCCEEDED"
           /\ mem[w].status # "SUCCEEDED")
          => /\ job'.status = "SUCCEEDED"
             /\ job'.progress_pct = 100
             /\ job'.result_ref = job.result_ref]_vars

\* C15: the delivery of a step message for a job whose stored status is
\* SUCCEEDED, FAILED or CANCELLED changes no job or step state, starts no
\* unit (the worker stays idle) and enqueues nothing; and a LockStep call
\* made while the stored status is one of these returns false.
C15_TerminalJobIgnoresMessages ==
    [][/\ (delivered' # delivered /\ job.status \in {"SUCCEEDED", "FAILED", "CANCELLED"})
          => /\ job' = job
             /\ \A s \in Steps : enq'[s] <= enq[s]
             /\ \A w \in Workers : pc'[w] = pc[w]
       /\ \A w \in Workers :
             (LockReturns(w) /\ job.status \in {"SUCCEEDED", "FAILED", "CANCELLED"})
             => pc'[w] = "idle"]_vars

\* C16: when the unit raises an error (an AppError or any other exception,
\* never the retry-drill abort) while the stored step is RUNNING under the
\* worker's token, the step becomes FAILED and the job becomes FAILED with
\* the error's code as error_code (STEP_EXECUTION_FAILED for an exception
\* that carries none) and with error_detail set: the job is not left RUNNING.
C16_UnitErrorFailsStepAndJob ==
    [][\A w \in Workers, kind \in ErrorKinds :
          (/\ UnitRaise(w, kind)
           /\ Stored(w).status = "RUNNING"
           /\ Stored(w).lock_token = tok[w])
          => /\ job'.steps[wstep[w]].status = "FAILED"
             /\ job'.status = "FAILED"
             /\ job'.error_code = (IF kind = "AppError" THEN "APP_ERROR_CODE"
                                   ELSE "STEP_EXECUTION_FAILED")
             /\ job'.error_detail # NoDetail]_vars

\* C17: when the retry drill aborts a delivery (it is configured for the
\* step, the lock was granted and the entry was not yet marked), no unit runs
\* and the abort is not turned into fail_step: the step stays RUNNING under
\* the delivery's token with the drill mark set, the job is not marked
\* FAILED and its error_code and error_detail stay as they were.
C17_RetryDrillAbortIsNotAFailure ==
    [][\A w \in Workers :
          (/\ LockReturns(w)
           /\ drill = wstep[w]
           /\ lock_step(mem[w], wstep[w], tok[w], 0, now).ok
           /\ ~mem[w].steps[wstep[w]].retry_drill_injected)
          => /\ pc'[w] = "idle"
             /\ job'.steps[wstep[w]].status = "RUNNING"
             /\ job'.steps[wstep[w]].lock_token = tok[w]
             /\ job'.steps[wstep[w]].retry_drill_injected
             /\ job'.status = "FAILED" => job.status = "FAILED"
             /\ job'.error_code = job.error_code
             /\ job'.error_detail = job.error_detail]_vars

\* the drill aborted a delivery of the configured step and left it locked
C17_Witness ==
    \E w \in Workers :
        /\ outcome[w] = "drill_abort"
        /\ job.steps[drill].status = "RUNNING"
        /\ job.steps[drill].retry_drill_injected
        /\ job.status = "RUNNING"

\* C18: merging a step's partial result changes only that partial's keys:
\* the stored value of a result_ref key changes only when a unit of the
\* key's own step ends, and a key that is present is never removed.
C18_MergeKeepsEarlierKeys ==
    [][\A s \in Steps :
          /\ job'.result_ref[s] # job.result_ref[s]
             => \E w \in Workers : UnitEnds(w) /\ wstep[w] = s
          /\ job.result_ref[s] # NoToken => job'.result_ref[s] # NoToken]_vars

\* C19: a TouchLease call (made by the progress emitter of a running unit)
\* returns true, so that the progress is stored, and moves the stored
\* lease_expires_at to now + lease exactly when the stored step is RUNNING
\* and its lock_token is the caller's token; in every other case it returns
\* false and nothing stored changes.
C19_TouchLeaseNeedsTheLock ==
    [][\A w \in Workers, p \in InnerProgress :
          EmitProgress(w, p)
          => IF Stored(w).status = "RUNNING" /\ Stored(w).lock_token = tok[w]
             THEN /\ job'.steps[wstep[w]] =
                        [Stored(w) EXCEPT
                            !.updated_at = now,
                            !.lease_expires_at = now + pipeline_step_lease_seconds]
                  /\ job'.progress_pct = mapped_progress(wstep[w], p)
             ELSE job' = job]_vars

\* a worker that locked its step at time 0 reported progress at time 900
\* and still holds the lock, its lease now ending at 1800; the other worker
\* reported progress for a step it no longer holds
C19_Witness ==
    \E w, v \in Workers :
        /\ pc[w] = "unit" /\ inner[w] = 5
        /\ mem[w].steps[wstep[w]].lease_expires_at = pipeline_step_lease_seconds
        /\ now = pipeline_step_lease_seconds
        /\ Stored(w).lock_token = tok[w]
        /\ Stored(w).lease_expires_at = now + pipeline_step_lease_seconds
        /\ pc[v] = "unit" /\ inner[v] = 5 /\ Stored(v).lock_token # tok[v]

\* C20: in every reachable state a step entry with a non-empty lock_token
\* is RUNNING: PENDING, SUCCEEDED and FAILED entries carry no lock_token.
C20_TokenOnlyWhileRunning ==
    \A s \in Steps :
        job.steps[s].lock_token # NoToken => job.steps[s].status = "RUNNING"

\* the last step was RUNNING under the tokens of two deliveries; one
\* completed it and stored its result, the other failed it: the entry is
\* FAILED and carries no token
C20_Witness ==
    /\ job.steps["GENERATE_EXPORTS"].status = "FAILED"
    /\ job.steps["GENERATE_EXPORTS"].lock_token = NoToken
    /\ job.result_ref["GENERATE_EXPORTS"] # NoToken
    /\ \E w \in Workers : outcome[w] = "failed"
    /\ \E w \in Workers : outcome[w] = "job_succeeded"

\* C21: as long as no message of a newly created job has been delivered, the
\* job is QUEUED and each declared pipeline step (GEOCODE, BUILD_MATRIX,
\* OPTIMIZE, GENERATE_EXPORTS) is PENDING.
C21_NewJobIsQueuedAndPending ==
    delivered = 0
    => /\ job.status = "QUEUED"
       /\ \A i \in DOMAIN PIPELINE_STEPS : job.steps[PIPELINE_STEPS[i]].status = "PENDING"
       /\ {PIPELINE_STEPS[i] : i \in DOMAIN PIPELINE_STEPS}
             = {"GEOCODE", "BUILD_MATRIX", "OPTIMIZE", "GENERATE_EXPORTS"}

\* the job was created and its GEOCODE message enqueued, time has passed and
\* no delivery has happened yet
C21_Witness ==
    /\ delivered = 0
    /\ now > 0
    /\ enq["GEOCODE"] = 1
    /\ job.current_step = "GEOCODE"
    /\ job.progress_pct = 0

\* the steps that come before s in PIPELINE_STEPS
StepsBefore(s) ==
    {PIPELINE_STEPS[i] : i \in {j \in DOMAIN PIPELINE_STEPS :
                                   \E k \in DOMAIN PIPELINE_STEPS :
                                       k > j /\ PIPELINE_STEPS[k] = s}}

\* C22: when no unit fails and no lock is lost, the run that starts with the
\* GEOCODE message enqueues each later step exactly once and in pipeline
\* order (a step is enqueued only while it is PENDING, has no message, and
\* all steps before it are SUCCEEDED), and it ends with the job SUCCEEDED at
\* progress_pct 100 with current_step GENERATE_EXPORTS after one delivery
\* per step.
C22_UndisturbedRunSucceeds ==
    /\ [][\A s \in Steps :
             enq'[s] > enq[s]
             => /\ enq[s] = 0 /\ enq'[s] = 1
                /\ job'.steps[s].status = "PENDING"
                /\ \A b \in StepsBefore(s) : job'.steps[b].status = "SUCCEEDED"
                /\ \A a \in Steps : s \in StepsBefore(a) => job'.steps[a].status = "PENDING"]_vars
    /\ <>[](/\ job.status = "SUCCEEDED"
            /\ job.progress_pct = 100
            /\ job.current_step = "GENERATE_EXPORTS"
            /\ delivered = Len(PIPELINE_STEPS)
            /\ \A s \in Steps : enq[s] = 0 /\ job.steps[s].status = "SUCCEEDED")

\* the undisturbed run is over: four deliveries, the job SUCCEEDED
C22_Witness ==
    /\ job.status = "SUCCEEDED"
    /\ job.progress_pct = 100
    /\ delivered = Len(PIPELINE_STEPS)
    /\ \A s \in Steps : job.result_ref[s] # NoToken
    /\ \E w \in Workers : outcome[w] = "job_succeeded"

\* C23: on every delivery path a message with kind "job" (and a job id) is
\* executed as a single-shot job by run_queued_job, and a message of any
\* other kind is handed to the pipeline step handler.
C23_JobMessagesRunOutsideThePipeline ==
    fn.op = "deliver"
    => /\ (fn.msg.kind = "job" /\ fn.msg.job_id # "")
          => (fn.out.handler = "run_queued_job" /\ fn.out.effect = "ran_job")
       /\ normalize_kind(fn.msg.kind) # "job"
          => fn.out.handler = "process_task_payload"

\* C24: the OPTIMIZE step tries the object-storage reference before any file
\* path; it fails with MATRIX_ARTIFACT_MISSING exactly when result_ref holds
\* no reference (no object path and no file path), and whenever a reference
\* is present but no present reference yields the artifact it fails with the
\* distinct error MATRIX_ARTIFACT_LOAD_FAILED.
C24_ArtifactMissingVersusUnreadable ==
    fn.op = "load_artifact"
    => LET has_object == fn.ref.present /\ fn.ref.object_path \notin {"", " "}
           has_file == fn.ref.present /\ fn.ref.file_path \notin {"", " "}
           has_path == fn.artifact_path \notin {"", " "}
           loadable == \/ has_object /\ fn.object_state = "json"
                       \/ has_file /\ fn.file_state = "json"
                       \/ has_path /\ fn.path_state = "json"
       IN  /\ has_object => fn.out.tried[1] = "object_path"
           /\ fn.out.result = "MATRIX_ARTIFACT_MISSING"
                 <=> ~(has_object \/ has_file \/ has_path)
           /\ ((has_object \/ has_file \/ has_path) /\ ~loadable)
                 => fn.out.result = "MATRIX_ARTIFACT_LOAD_FAILED"

\* C25: an infeasible solve is not a failure. The OPTIMIZE unit returns, so
\* its step is completed SUCCEEDED with feasible = FALSE in the partial that
\* is merged into result_ref; GENERATE_EXPORTS then returns exports_skipped
\* without raising, its step is completed too, and the job ends SUCCEEDED,
\* never FAILED.
C25_InfeasibleSolveStillSucceeds ==
    /\ [][/\ (fn'.op = "optimize_step" /\ fn # fn' /\ ~fn'.partial.optimize.feasible)
               => /\ fn'.merged
                  /\ job'.steps["OPTIMIZE"].status = "SUCCEEDED"
                  /\ job'.result_ref["OPTIMIZE"] # NoToken
                  /\ job'.status = "RUNNING"
          /\ (fn'.op = "exports_step" /\ fn # fn' /\ ~fn'.optimize.feasible)
               => /\ fn'.out = [kind |-> "returned", exports_skipped |-> TRUE]
                  /\ job'.steps["GENERATE_EXPORTS"].status = "SUCCEEDED"
                  /\ job'.status # "FAILED"]_vars
    /\ [](fn.op \in {"optimize_step", "exports_step"}
            => (LET o == IF fn.op = "optimize_step" THEN fn.partial.optimize
                         ELSE fn.optimize
                IN  ~o.feasible => job.status # "FAILED"))
    /\ (fn.op = "optimize_step" /\ ~fn.partial.optimize.feasible)
          ~> [](/\ job.status = "SUCCEEDED"
                /\ fn.op = "exports_step"
                /\ \A s \in Steps : job.steps[s].status = "SUCCEEDED")

C25_Witness ==
    /\ fn.op = "exports_step"
    /\ ~fn.optimize.feasible
    /\ fn.optimize.status = "INFEASIBLE"
    /\ fn.out.kind = "returned"
    /\ job.status = "SUCCEEDED"
    /\ job.progress_pct = 100
    /\ job.steps["OPTIMIZE"].status = "SUCCEEDED"
    /\ job.steps["GENERATE_EXPORTS"].status = "SUCCEEDED"

\* the total demand of the stops exceeds what the fleet can carry
DemandExceedsFleet(call) ==
    /\ call.capacity # NoCapacity
    /\ SumSeq(call.stops) > call.capacity * call.num_vehicles

C27_DropVisitsYieldsPartialPlan ==
    (fn.op = "solve" /\ fn.allow_drop_visits /\ DemandExceedsFleet(fn))
        => /\ fn.out.feasible
           /\ fn.out.status = "PARTIAL"
           /\ fn.out.unserved # {}
           /\ (fn.stops = <<1, 1, 1>> /\ fn.num_vehicles = 1 /\ fn.capacity = 2)
                 => Cardinality(fn.out.unserved) = 1

\* some ordered pair of the build could not be resolved
SomePairFails(call) == \E p \in DOMAIN call.resolve : call.resolve[p] = "raised"

\* C28: if the duration of any single ordered pair cannot be resolved, the
\* matrix build raises and produces no artifact: nothing is saved, and the
\* step merges no artifact reference into result_ref (the step and the job
\* are failed instead).
C28_FailedPairFailsWholeBuild ==
    [][(fn'.op = "build_matrix_step" /\ fn' # fn /\ SomePairFails(fn'))
          => /\ fn'.out.kind = "raised"
             /\ fn'.out.saved = {}
             /\ fn'.out.partial = {}
             /\ job'.result_ref = job.result_ref
             /\ job'.result_ref["BUILD_MATRIX"] = NoToken
             /\ job'.steps["BUILD_MATRIX"].status = "FAILED"
             /\ job'.status = "FAILED"]_vars

C28_Witness ==
    /\ fn.op = "build_matrix_step"
    /\ fn.nodes = 3
    /\ fn.resolve[<<1, 2>>] = "resolved"
    /\ fn.resolve[<<3, 2>>] = "raised"
    /\ fn.out.kind = "raised"
    /\ job.steps["BUILD_MATRIX"].status = "FAILED"
    /\ job.result_ref["BUILD_MATRIX"] = NoToken

\* a worker's get_base_route call starts in this step
RouteRequested == routes'.requests = routes.requests + 1

\* C29: once the duration of a key (rounded origin, rounded destination,
\* departure bucket, day of week) has been resolved, a later request for
\* the same key is answered from a cache (the key-value cache or the
\* od_cache table) and calls the routing provider no more.
C29_SecondRequestIsACacheHit ==
    [][(/\ RouteRequested
        /\ routes'.req[routes'.who].origin # routes'.req[routes'.who].dest
        /\ route_key(routes'.req[routes'.who]) \in routes.resolved)
          => /\ routes'.rpc[routes'.who] = "idle"
             /\ routes'.last[routes'.who].source \in {"kv", "db"}
             /\ routes'.last[routes'.who].od_cache_id > 0
             /\ routes'.calls = routes.calls]_vars

\* the provider answers a worker's get_base_route call in this step
RouteAnswered(w) == routes.rpc[w] = "calling" /\ routes'.rpc[w] = "idle"

\* C30: a heuristic fallback answer (is_fallback true) is not written to
\* the od_cache table and is returned with od_cache_id -1; only genuine
\* provider answers are stored, and they get a positive od_cache_id.
C30_FallbackIsNotPersisted ==
    /\ [][\A w \in Workers :
            (RouteAnswered(w) /\ routes'.last[w].source = "provider")
               => IF Len(routes'.od) > Len(routes.od)
                  THEN /\ ~routes'.od[Len(routes'.od)].is_fallback
                       /\ routes'.last[w].od_cache_id > 0
                  ELSE routes'.last[w].od_cache_id = -1]_vars
    /\ [](\A i \in DOMAIN routes.od : ~routes.od[i].is_fallback)

\* C35: once the job is SUCCEEDED, FAILED or CANCELLED, no later delivery,
\* progress callback, result merge or late complete_step/fail_step of a
\* stale worker changes the status of the job.
C35_TerminalStatusIsFinal ==
    [][job.status \in TerminalStatuses => job'.status = job.status]_vars

\* C36: in every reachable state a job that is SUCCEEDED has all four steps
\* SUCCEEDED.
C36_SucceededJobHasAllStepsSucceeded ==
    job.status = "SUCCEEDED"
        => \A s \in Steps : job.steps[s].status = "SUCCEEDED"

\* the unit function of worker w starts in this step
UnitStarts(w) == pc[w] = "lock" /\ pc'[w] = "unit"

\* C37: whatever the order and the number of deliveries, the unit function
\* of a step starts only when every earlier step of the pipeline order is
\* SUCCEEDED in the stored row.
C37_UnitStartsAfterEarlierSteps ==
    [][\A w \in Workers :
          UnitStarts(w)
             => \A s \in StepsBefore(wstep[w]) : job.steps[s].status = "SUCCEEDED"]_vars

\* C38: for each step at most one worker's partial result is ever merged
\* into result_ref, also when a reclaimed lease lets two workers run the
\* unit of the step at overlapping times.
C38_OneMergePerStep ==
    [][\A s \in Steps :
          job.result_ref[s] # NoToken => job'.result_ref[s] = job.result_ref[s]]_vars

\* C39: in every reachable state, if a step is FAILED then the job is FAILED
\* (not RUNNING, not SUCCEEDED) and carries an error_code.
C39_FailedStepMeansFailedJob ==
    (\E s \in Steps : job.steps[s].status = "FAILED")
        => /\ job.status = "FAILED"
           /\ job.error_code # NoError

\* live traffic was requested and the provider was asked for the routes
TrafficAsked(call) ==
    call.use_live_traffic /\ call.feature_google_traffic /\ call.enabled

\* the provider fails for some route of the call
TrafficFails(call) ==
    \E i \in DOMAIN call.route_records :
        ~call.route_records[i].short /\ call.route_records[i].provider # "ok"

\* C31: when live traffic is requested and the provider fails for any
\* route, the optimize still returns a feasible plan, every duration of
\* which is the matrix estimate, with eta_source the tag of the matrix
\* strategy and no traffic_timestamp; eta_source is google_traffic only when
\* the provider succeeded for every route.
C31_TrafficFailureFallsBackToMatrix ==
    fn.op = "live_traffic" =>
        /\ (TrafficAsked(fn) /\ TrafficFails(fn))
              => /\ fn.out.feasible
                 /\ \A i \in DOMAIN fn.out.durations : fn.out.durations[i] = "matrix"
                 /\ fn.out.eta_source = eta_source_from_artifact(fn.artifact)
                 /\ fn.out.eta_source \in {"ml_uplift", "ml_baseline", "onemap"}
                 /\ fn.out.traffic_timestamp = NoStamp
        /\ fn.out.eta_source = "google_traffic"
              => /\ TrafficAsked(fn)
                 /\ ~TrafficFails(fn)

C31_Witness ==
    /\ fn.op = "live_traffic"
    /\ TrafficAsked(fn)
    /\ Len(fn.route_records) = 2
    /\ fn.route_records[1] = [short |-> FALSE, provider |-> "ok"]
    /\ fn.route_records[2] = [short |-> FALSE, provider |-> "GoogleTrafficError"]
    /\ fn.out.eta_source = "ml_baseline"
    /\ fn.out.traffic_timestamp = NoStamp

\* a failure the call may be retried after: no response (timeout, request
\* error), HTTP 429, or a 5xx status
Transient(resp) == resp \in {Timeout, RequestError, 429} \/ (resp >= 500 /\ resp <= 599)

\* C32 (as stated): an outbound provider call is retried only after transient
\* failures (timeout, HTTP 429 or 5xx) and never beyond its attempt cap, after
\* which it fails; an error response that is not transient is raised after
\* the attempt that met it, with no retry.
C32_RetryOnlyTransientFailures ==
    fn.op = "provider_call" =>
        LET cap == max_attempts(fn.provider)
            n   == fn.out.attempts
        IN  /\ n <= cap
            /\ \A i \in 1..(n - 1) : Transient(fn.responses[i])
            /\ (fn.responses[n] # 200) => fn.out.kind = "raised"
            /\ (fn.responses[1] >= 400 /\ ~Transient(fn.responses[1]))
                  => (fn.out.kind = "raised" /\ n = 1)

\* the i-th answer of the call is the first HTTP 401 a OneMap client outside
\* mock mode meets: the one after which it renews its token and asks again
TokenRefresh(call, i) ==
    /\ call.provider = "onemap"
    /\ ~call.mock_mode
    /\ call.responses[i] = 401
    /\ \A j \in 1..(i - 1) : call.responses[j] # 401

\* C32 (amended): an outbound provider call is retried only after transient
\* failures (timeout, HTTP 429 or 5xx) or, by the OneMap client outside mock
\* mode, once after the first HTTP 401 with a renewed token, and never beyond
\* its attempt cap, after which it fails; any other error response is raised
\* after the attempt that met it, with no retry.
C32_RetryOnlyTransientOrTokenRefresh ==
    fn.op = "provider_call" =>
        LET cap == max_attempts(fn.provider)
            n   == fn.out.attempts
        IN  /\ n <= cap
            /\ \A i \in 1..(n - 1) : Transient(fn.responses[i]) \/ TokenRefresh(fn, i)
            /\ (fn.responses[n] # 200) => fn.out.kind = "raised"
            /\ \A i \in 1..n :
                  (fn.responses[i] >= 400 /\ ~Transient(fn.responses[i]) /\ ~TokenRefresh(fn, i))
                     => (fn.out.kind = "raised" /\ n = i)

\* a OneMap call that renewed its token after a 401, met a transient failure
\* and was then answered
C32_Witness ==
    /\ fn.op = "provider_call"
    /\ fn.provider = "onemap"
    /\ ~fn.mock_mode
    /\ fn.responses[1] = 401
    /\ fn.responses[2] = 503
    /\ fn.responses[3] = 200
    /\ fn.out.kind = "returned"
    /\ fn.out.attempts = 3

\* C33: resequencing a route with apply=false changes no Plan, Route or
\* RouteStop record; with apply=true it replaces exactly that route's stops
\* with the requested order and updates the plan-level makespan to the
\* makespan of the routes as stored, leaving every other route's stops
\* unchanged.
C33_ResequenceAppliesOnlyOnApply ==
    fn.op = "resequence" =>
        /\ ~fn.apply => fn.after = fn.before
        /\ fn.out.kind = "raised" => fn.after = fn.before
        /\ (fn.apply /\ fn.out.kind = "returned") =>
              /\ StopIdsOf(fn.after.route_stops[fn.route_id]) = fn.ordered_stop_ids
              /\ \A r \in PlanRouteIds \ {fn.route_id} :
                    fn.after.route_stops[r] = fn.before.route_stops[r]
              /\ fn.after.total_makespan_s = Makespan(fn.after.route_stops)

\* the dataset of the request is over the stop limit or the matrix limit
ScaleExceeded(call) ==
    /\ call.dataset_exists
    /\ \/ call.stop_count > call.max_stops
       \/ estimated_matrix_elements(call.stop_count) > call.max_matrix_elements

\* C34: every optimize entry point (dataset optimize, jobs optimize, A/B
\* test) rejects a request whose stop count or estimated matrix size exceeds
\* the configured limit, with OPTIMIZE_MAX_STOPS_EXCEEDED or
\* OPTIMIZE_MAX_MATRIX_ELEMENTS_EXCEEDED, before any job is created or
\* enqueued.
C34_EveryEntryPointRejectsOversizedRequests ==
    (fn.op = "optimize_request" /\ ScaleExceeded(fn)) =>
        /\ fn.out.kind = "raised"
        /\ fn.out.error_code = IF fn.stop_count > fn.max_stops
                               THEN "OPTIMIZE_MAX_STOPS_EXCEEDED"
                               ELSE "OPTIMIZE_MAX_MATRIX_ELEMENTS_EXCEEDED"
        /\ fn.out.jobs_created = 0
        /\ fn.out.enqueued = 0

\* a kind="job" message is delivered in this step
JobMessageDelivered ==
    /\ fn.op = "single_shot_job"
    /\ fn'.op = "single_shot_job"
    /\ fn'.deliveries = fn.deliveries + 1

\* C40: redelivery of a kind="job" message for a single-shot job that has
\* already reached SUCCEEDED or FAILED does not execute the job again and
\* does not change its status or result_ref.
C40_RedeliveryOfFinishedJobIsANoOp ==
    [][(JobMessageDelivered /\ fn.status \in {"SUCCEEDED", "FAILED"})
          => /\ fn'.executions = fn.executions
             /\ fn'.status = fn.status
             /\ fn'.result_ref = fn.result_ref]_vars

====
